---- MODULE Spec2Model ----
(***************************************************************************)
(* Metaphone3 encoder (package metaphone3, metaphone3.go).                 *)
(*                                                                         *)
(* A word, a key buffer and a lexicon entry are strings; a rune is a       *)
(* string of length one.  An Encoder is a record with the fields of the Go *)
(* struct plus `panicked`, which records that the goroutine running Encode *)
(* hit a run-time panic (an index out of range or an explicit panic).      *)
(*                                                                         *)
(* A rule that only inspects the word is a boolean operator.  A rule that  *)
(* writes the encoder is a transformer of the record: a method without a   *)
(* result yields the new record, a bool method yields Ret(e', result).     *)
(***************************************************************************)
EXTENDS Integers, Sequences, FiniteSets, TLC

\* var DefaultMaxLength = 8
DefaultMaxLength == 8

\* var debug = false; the Printf calls it guards are not modelled
debug == FALSE

(***************************************************************************)
(* Runes outside ASCII.  TLC keeps one byte of each character of a string  *)
(* when it stores a state, so a rune above U+007F is written here as a     *)
(* character of the block U+FF80..U+FFDF, which TLC stores and reads back  *)
(* unchanged.  Each rune the package mentions, and each rune of an input   *)
(* word, has a name; the rune it stands for is in the comment.  Distinct   *)
(* runes are distinct characters, which is all the encoder looks at.       *)
(***************************************************************************)
Agrave == "ﾀ"  \* U+00C0 À
Aacute == "ﾁ"  \* U+00C1 Á
Acirc == "ﾂ"  \* U+00C2 Â
Atilde == "ﾃ"  \* U+00C3 Ã
Auml == "ﾄ"  \* U+00C4 Ä
Aring == "ﾅ"  \* U+00C5 Å
AElig == "ﾆ"  \* U+00C6 Æ
Ccedil == "ﾇ"  \* U+00C7 Ç
Egrave == "ﾈ"  \* U+00C8 È
Eacute == "ﾉ"  \* U+00C9 É
Ecirc == "ﾊ"  \* U+00CA Ê
Euml == "ﾋ"  \* U+00CB Ë
Igrave == "ﾌ"  \* U+00CC Ì
Iacute == "ﾍ"  \* U+00CD Í
Icirc == "ﾎ"  \* U+00CE Î
Iuml == "ﾏ"  \* U+00CF Ï
ETH == "ﾐ"  \* U+00D0 Ð
Ntilde == "ﾑ"  \* U+00D1 Ñ
Ograve == "ﾒ"  \* U+00D2 Ò
Oacute == "ﾓ"  \* U+00D3 Ó
Ocirc == "ﾔ"  \* U+00D4 Ô
Otilde == "ﾕ"  \* U+00D5 Õ
Ouml == "ﾖ"  \* U+00D6 Ö
Oslash == "ﾘ"  \* U+00D8 Ø
Ugrave == "ﾙ"  \* U+00D9 Ù
Uacute == "ﾚ"  \* U+00DA Ú
Ucirc == "ﾛ"  \* U+00DB Û
Uuml == "ﾜ"  \* U+00DC Ü
Yacute == "ﾝ"  \* U+00DD Ý
THORN == "ﾞ"  \* U+00DE Þ
szlig == "ﾟ"  \* U+00DF ß
agrave == "ﾠ"  \* U+00E0 à
aacute == "ﾡ"  \* U+00E1 á
acirc == "ﾢ"  \* U+00E2 â
atilde == "ﾣ"  \* U+00E3 ã
auml == "ﾤ"  \* U+00E4 ä
aring == "ﾥ"  \* U+00E5 å
aelig == "ﾦ"  \* U+00E6 æ
ccedil == "ﾧ"  \* U+00E7 ç
egrave == "ﾨ"  \* U+00E8 è
eacute == "ﾩ"  \* U+00E9 é
ecirc == "ﾪ"  \* U+00EA ê
euml == "ﾫ"  \* U+00EB ë
igrave == "ﾬ"  \* U+00EC ì
iacute == "ﾭ"  \* U+00ED í
icirc == "ﾮ"  \* U+00EE î
iuml == "ﾯ"  \* U+00EF ï
eth == "ﾰ"  \* U+00F0 ð
ntilde == "ﾱ"  \* U+00F1 ñ
ograve == "ﾲ"  \* U+00F2 ò
oacute == "ﾳ"  \* U+00F3 ó
ocirc == "ﾴ"  \* U+00F4 ô
otilde == "ﾵ"  \* U+00F5 õ
ouml == "ﾶ"  \* U+00F6 ö
oslash == "ﾸ"  \* U+00F8 ø
ugrave == "ﾹ"  \* U+00F9 ù
uacute == "ﾺ"  \* U+00FA ú
ucirc == "ﾻ"  \* U+00FB û
uuml == "ﾼ"  \* U+00FC ü
yacute == "ﾽ"  \* U+00FD ý
thorn == "ﾾ"  \* U+00FE þ
yuml == "﾿"  \* U+00FF ÿ
Yuml == "￀"  \* U+0178 Ÿ
Scaron == "￁"  \* U+0160 Š
scaron == "ￂ"  \* U+0161 š
HangulC28A == "ￊ"  \* U+C28A 슊
HangulC28C == "ￌ"  \* U+C28C 슌
HangulC28E == "ￎ"  \* U+C28E 슎
HangulC29F == "￟"  \* U+C29F 슟

\* unicode.ReplacementChar, the "no symbol" argument of metaphAddAlt
ReplacementChar == "�"

\* e.in[i], i counted from 0 as in Go
runeAt(s, i) == SubSeq(s, i + 1, i + 1)

\* s[lo:]
sliceFrom(s, lo) == SubSeq(s, lo + 1, Len(s))

\* s[:hi]
sliceTo(s, hi) == SubSeq(s, 1, hi)

Ret(e, b) == [e |-> e, ret |-> b]

\* The({body : x \in {v}}) is body with x standing for the value v
The(S) == CHOOSE out \in S : TRUE

\* a run-time panic unwinds Encode; the record keeps the mark
Panic(e) == [e EXCEPT !.panicked = TRUE]

\* three-valued conditions: a condition that indexes the word may panic
True3 == "true"
False3 == "false"
Panic3 == "panic"
B3(b) == IF b THEN True3 ELSE False3
Not3(a) == IF a = Panic3 THEN Panic3 ELSE IF a = True3 THEN False3 ELSE True3
\* a && b: b is evaluated only when a is true
And3(a, b) == IF a = True3 THEN b ELSE a
\* a || b: b is evaluated only when a is false
Or3(a, b) == IF a = False3 THEN b ELSE a

\* s[i] == c, which panics when i is out of range
Idx3(s, i, c) == IF (i < 0) \/ (i >= Len(s)) THEN Panic3 ELSE B3(runeAt(s, i) = c)
\* s[i] != c
IdxNe3(s, i, c) == Not3(Idx3(s, i, c))

\* the lower-case runes of the input words, and their upper-case forms
LowerCase ==
  "abcdefghijklmnopqrstuvwxyz" \o ntilde \o ccedil \o eth \o thorn \o agrave \o aacute
  \o acirc \o atilde \o auml \o aring \o aelig \o egrave \o eacute \o ecirc \o euml
  \o igrave \o iacute \o icirc \o iuml \o ograve \o oacute \o ocirc \o otilde \o ouml
  \o oslash \o ugrave \o uacute \o ucirc \o uuml \o yacute \o yuml \o scaron
UpperCase ==
  "ABCDEFGHIJKLMNOPQRSTUVWXYZ" \o Ntilde \o Ccedil \o ETH \o THORN \o Agrave \o Aacute
  \o Acirc \o Atilde \o Auml \o Aring \o AElig \o Egrave \o Eacute \o Ecirc \o Euml
  \o Igrave \o Iacute \o Icirc \o Iuml \o Ograve \o Oacute \o Ocirc \o Otilde \o Ouml
  \o Oslash \o Ugrave \o Uacute \o Ucirc \o Uuml \o Yacute \o Yuml \o Scaron

\* unicode.ToUpper(r)
ToUpper(r) ==
  IF \E i \in 1..Len(LowerCase) : SubSeq(LowerCase, i, i) = r
  THEN LET i == CHOOSE i \in 1..Len(LowerCase) : SubSeq(LowerCase, i, i) = r
       IN SubSeq(UpperCase, i, i)
  ELSE r

RECURSIVE ToUpperAll(_)
\* for _, r := range in { e.in = append(e.in, unicode.ToUpper(r)) }
ToUpperAll(s) ==
  IF s = "" THEN "" ELSE ToUpper(SubSeq(s, 1, 1)) \o ToUpperAll(SubSeq(s, 2, Len(s)))

\* faulty variant of isVowel: only the unaccented vowels are recognised
isVowel_ascii(inChar) ==
  (inChar = "A") \/ (inChar = "E") \/ (inChar = "I") \/ (inChar = "O") \/ (inChar = "U") \/ (inChar = "Y")

\* isVowel returns true for vowels in many languages and charactersets
isVowel(inChar) ==
  (inChar = "A") \/ (inChar = "E") \/ (inChar = "I") \/ (inChar = "O") \/ (inChar = "U") \/ (inChar = "Y") \/
  (inChar = Agrave) \/ (inChar = Aacute) \/ (inChar = Acirc) \/ (inChar = Atilde) \/ (inChar = Auml) \/ (inChar = Aring) \/ (inChar = AElig) \/
  (inChar = Egrave) \/ (inChar = Eacute) \/ (inChar = Ecirc) \/ (inChar = Euml) \/
  (inChar = Igrave) \/ (inChar = Iacute) \/ (inChar = Icirc) \/ (inChar = Iuml) \/
  (inChar = Ograve) \/ (inChar = Oacute) \/ (inChar = Ocirc) \/ (inChar = Otilde) \/ (inChar = Ouml) \/ (inChar = Oslash) \/
  (inChar = Ugrave) \/ (inChar = Uacute) \/ (inChar = Ucirc) \/ (inChar = Uuml) \/ (inChar = Yacute) \/
  (inChar = HangulC29F) \/ (inChar = HangulC28C)

areEqual(buf1, buf2) ==
  IF Len(buf1) # Len(buf2)
  THEN FALSE
  ELSE \A i \in 0..(Len(buf1) - 1) : runeAt(buf1, i) = runeAt(buf2, i)

\* faulty variant of primeBuf: the runes of the last call stay in the buffer
primeBuf_keep(buf, ensureCap) == buf

\* the buffer comes back with length 0 on every path; its capacity is not observable
primeBuf(buf, ensureCap) ==
  IF Len(buf) # 0 THEN SubSeq(buf, 1, 0) ELSE buf

rootOrInflections(inWord0, root) ==
  LET lenDiff == Len(inWord0) - Len(root)
      last == Len(root) - 1
      inWord == sliceFrom(inWord0, last)
  IN
  IF lenDiff < 0 THEN FALSE
  ELSE IF \E i \in 0..(last - 1) : runeAt(inWord0, i) # runeAt(root, i) THEN FALSE
  ELSE IF (runeAt(inWord, 0) = runeAt(root, last))
          /\ ((lenDiff = 0) \/ ((lenDiff = 1) /\ (runeAt(inWord, 1) = "S"))) THEN TRUE
  ELSE IF (runeAt(root, last) = "E")
          /\ (lenDiff = 1) /\ (runeAt(inWord, 0) = "E") /\ (runeAt(inWord, 1) = "D") THEN TRUE
  ELSE IF (runeAt(root, last) # "E") /\ (runeAt(inWord, 0) # runeAt(root, last)) THEN FALSE
  ELSE IF (runeAt(root, last) # "E")
          /\ (lenDiff = 2) /\ (runeAt(inWord, 1) = "E")
          /\ ((runeAt(inWord, 2) = "S") \/ (runeAt(inWord, 2) = "D")) THEN TRUE
  ELSE IF (lenDiff = 3) /\ areEqual(inWord, "ING") THEN TRUE
  ELSE IF (lenDiff = 5) /\ areEqual(inWord, "INGLY") THEN TRUE
  ELSE IF (lenDiff = 1) /\ (runeAt(inWord, 0) = "Y") THEN TRUE
  ELSE FALSE

isVowelAt(e, offset) ==
  LET at == e.idx + offset IN
  IF (at < 0) \/ (at >= Len(e.in)) THEN FALSE ELSE isVowel(runeAt(e.in, at))

\* charAt at an offset that keeps the index at or after the word's start
charAt(e, offset, c) ==
  LET idx == e.idx + offset IN
  IF idx >= Len(e.in) THEN FALSE ELSE runeAt(e.in, idx) = c

\* charAt at any offset: the index is not checked against 0
charAt3(e, offset, c) ==
  LET idx == e.idx + offset IN
  IF idx >= Len(e.in) THEN False3 ELSE Idx3(e.in, idx, c)

charNextIs(e, c) == charAt(e, 1, c)

\* Each of the four matchers walks vals in order and gives up (returns false) at the
\* first entry that is longer than the letters available, so an entry is tried only
\* when no entry before it overruns.

\* stringAt's bounds check inside the loop, for entry j
overrunsAt(e, start, vals, j) == start + Len(vals[j]) > Len(e.in)

stringAt(e, offset, vals) ==
  LET start == e.idx + offset IN
  IF (start < 0) \/ (start >= Len(e.in)) \/ (start + Len(vals[1]) > Len(e.in))
  THEN FALSE
  ELSE \E k \in 1..Len(vals) :
         /\ ~overrunsAt(e, start, vals, k)
         /\ SubSeq(e.in, start + 1, start + Len(vals[k])) = vals[k]
         /\ \A j \in 1..(k - 1) : ~overrunsAt(e, start, vals, j)

stringAtStart(e, offset, vals) ==
  IF offset # -e.idx THEN FALSE ELSE stringAt(e, offset, vals)

\* only an entry that ends exactly on the last letter is compared
stringAtEnd(e, offset, vals) ==
  LET start == e.idx + offset IN
  IF (start < 0) \/ (start >= Len(e.in)) \/ (start + Len(vals[1]) > Len(e.in))
  THEN FALSE
  ELSE \E k \in 1..Len(vals) :
         /\ start + Len(vals[k]) = Len(e.in)
         /\ SubSeq(e.in, start + 1, start + Len(vals[k])) = vals[k]
         /\ \A j \in 1..(k - 1) : ~overrunsAt(e, start, vals, j)

stringStart(e, vals) == stringAt(e, -e.idx, vals)

stringEnd(e, vals) ==
  \E k \in 1..Len(vals) :
    /\ Len(e.in) - Len(vals[k]) >= 0
    /\ SubSeq(e.in, Len(e.in) - Len(vals[k]) + 1, Len(e.in)) = vals[k]
    /\ \A j \in 1..(k - 1) : Len(e.in) - Len(vals[j]) >= 0

stringExact(e, vals) ==
  \E k \in 1..Len(vals) :
    /\ Len(vals[k]) = Len(e.in)
    /\ e.in = vals[k]
    /\ \A j \in 1..(k - 1) : ~(Len(vals[j]) > Len(e.in))

stringContains(e, val) ==
  LET lastPossibleStart == Len(e.in) - Len(val) IN
  IF lastPossibleStart < 0 THEN FALSE
  ELSE \E i \in 0..lastPossibleStart : SubSeq(e.in, i + 1, i + Len(val)) = val

isSlavoGermanic(e) ==
  stringStart(e, <<"SCH", "SW">>) \/ (runeAt(e.in, 0) = "J") \/ (runeAt(e.in, 0) = "W")

metaphAddAlt(e, prim, second) ==
  LET e1 ==
        IF (prim # ReplacementChar)
           /\ ~((prim = "A") /\ (Len(e.primBuf) > 0) /\ (runeAt(e.primBuf, Len(e.primBuf) - 1) = "A"))
        THEN [e EXCEPT !.primBuf = @ \o prim]
        ELSE e
  IN
  IF (second # ReplacementChar)
     /\ ~((second = "A") /\ (Len(e1.secondBuf) > 0) /\ (runeAt(e1.secondBuf, Len(e1.secondBuf) - 1) = "A"))
  THEN [e1 EXCEPT !.secondBuf = @ \o second]
  ELSE e1

\* faulty variant of metaphAdd: the symbol reaches the secondary buffer only
metaphAdd_secondOnly(e, in) == metaphAddAlt(e, ReplacementChar, in)

metaphAdd(e, in) == metaphAddAlt(e, in, in)

metaphAddStr(e, prim, second) ==
  LET e1 ==
        IF ~((prim = "A") /\ (Len(e.primBuf) > 0) /\ (runeAt(e.primBuf, Len(e.primBuf) - 1) = "A"))
        THEN [e EXCEPT !.primBuf = @ \o prim]
        ELSE e
  IN
  IF (second # "")
     /\ ~((second = "A") /\ (Len(e1.secondBuf) > 0) /\ (runeAt(e1.secondBuf, Len(e1.secondBuf) - 1) = "A"))
  THEN [e1 EXCEPT !.secondBuf = @ \o second]
  ELSE e1

metaphAddExactApproxAlt(e, exact, altExact, main, alt) ==
  IF e.EncodeExact THEN metaphAddStr(e, exact, altExact) ELSE metaphAddStr(e, main, alt)

metaphAddExactApprox(e, exact, main) ==
  IF e.EncodeExact THEN metaphAddStr(e, exact, exact) ELSE metaphAddStr(e, main, main)

advanceCounter(e, noEncodeVowel, encodeVowel) ==
  IF e.EncodeVowels
  THEN [e EXCEPT !.idx = @ + encodeVowel]
  ELSE [e EXCEPT !.idx = @ + noEncodeVowel]

\* a result of skipVowels and of its loop: an index or offset, or a panic
Val(v) == [panic |-> FALSE, v |-> v]
PanicVal == [panic |-> TRUE, v |-> 0]

RECURSIVE skipVowelsLoop(_, _)
\* the for loop of skipVowels, entered with it = e.in[e.idx+off]; yields the
\* offset with which the loop is left
skipVowelsLoop(e, off) ==
  LET it == runeAt(e.in, e.idx + off) IN
  IF ~(isVowel(it) \/ (it = "W")) THEN Val(off)
  ELSE IF stringAt(e, off, <<"WICZ", "WITZ", "WIAK">>)
          \/ stringAt(e, off - 1, <<"EWSKI", "EWSKY", "OWSKI", "OWSKY">>)
          \/ stringAtEnd(e, off, <<"WICKI", "WACKI">>)
       THEN Val(off)
  ELSE LET off1 == off + 1
           c == And3(charAt3(e, off1 - 1, "W"),
                And3(charAt3(e, off1, "H"),
                     B3(~stringAt(e, off1, <<"HOP", "HIDE", "HARD", "HEAD", "HAWK", "HERD", "HOOK", "HAND", "HOLE",
                                             "HEART", "HOUSE", "HOUND", "HAMMER">>))))
           off2 == IF c = True3 THEN off1 + 1 ELSE off1
       IN
       IF c = Panic3 THEN PanicVal
       ELSE IF e.idx + off2 > e.lastIdx THEN Val(off2)
       ELSE skipVowelsLoop(e, off2)

\* faulty variant of skipVowels: only the letter at `at` is skipped
skipVowels_one(e, at) ==
  IF at < 0 THEN Val(0)
  ELSE IF at >= Len(e.in) THEN Val(Len(e.in))
  ELSE Val(at)

\* faulty variant of skipVowels: the scan starts one letter before `at`
skipVowels_early(e, at) ==
  IF at < 0 THEN Val(0)
  ELSE IF at >= Len(e.in) THEN Val(Len(e.in))
  ELSE LET r == skipVowelsLoop(e, at - e.idx - 1) IN
       IF r.panic THEN PanicVal
       ELSE IF r.v < 1 THEN PanicVal
       ELSE Val(e.idx + r.v - 1)

skipVowels(e, at) ==
  IF at < 0 THEN Val(0)
  ELSE IF at >= Len(e.in) THEN Val(Len(e.in))
  ELSE LET r == skipVowelsLoop(e, at - e.idx) IN
       IF r.panic THEN PanicVal
       ELSE IF r.v < 1 THEN PanicVal     \* panic("bug: skipping vowels moving backward")
       ELSE Val(e.idx + r.v - 1)

\* e.idx = e.skipVowels(at)
idxSkipVowels(e, at) ==
  LET r == skipVowels(e, at) IN
  IF r.panic THEN Panic(e) ELSE [e EXCEPT !.idx = r.v]

RECURSIVE huHwSkip(_)
\* for e.isVowelAt(0) || e.charAt(0, 'W') { e.idx++ }
huHwSkip(e) ==
  IF isVowelAt(e, 0) \/ charAt(e, 0, "W")
  THEN huHwSkip([e EXCEPT !.idx = @ + 1])
  ELSE e

\* faulty variant of encodeInitialHuHw: with EncodeVowels it gives back one letter
\* without having moved forward
encodeInitialHuHw_back(e) ==
  IF stringStart(e, <<"HUA", "HUE", "HWA">>) /\ ~stringAt(e, 0, <<"HUEY">>)
  THEN
    The({
      IF ~e1.EncodeVowels
      THEN
        Ret([e1 EXCEPT !.idx = @ + 2], TRUE)
      ELSE
        Ret([e1 EXCEPT !.idx = @ - 1], TRUE)
      : e1 \in {metaphAdd(e, "A")}})
  ELSE
    Ret(e, FALSE)

encodeInitialHuHw(e) ==
  IF stringStart(e, <<"HUA", "HUE", "HWA">>) /\ ~stringAt(e, 0, <<"HUEY">>)
  THEN
    The({
      IF ~e1.EncodeVowels
      THEN
        Ret([e1 EXCEPT !.idx = @ + 2], TRUE)
      ELSE
        Ret([huHwSkip([e1 EXCEPT !.idx = @ + 1]) EXCEPT !.idx = @ - 1], TRUE)
      : e1 \in {metaphAdd(e, "A")}})
  ELSE
    Ret(e, FALSE)

\* metaphone3.go:174-183  (rule)
encodeSilentB(e) ==
  IF (stringAt(e, -2, <<"DEBT", "SUBTL", "SUBTIL">>) \/ stringAt(e, -3, <<"DOUBT">>))
  THEN
    Ret([metaphAdd(e, "T") EXCEPT !.idx = @ + 1], TRUE)
  ELSE
    Ret(e, FALSE)

\* metaphone3.go:157-171  (rule)
encodeB(e) ==
  The({
    IF r1.ret
    THEN
      r1.e
    ELSE
      The({
        LET c1 == Or3(B3(charNextIs(e1, "B")), And3(B3((charNextIs(e1, "P") /\ ((e1.idx + 2) < Len(e1.in)))), IdxNe3(e1.in, e1.idx + 2, "H"))) IN
        IF c1 = Panic3 THEN Panic(e1)
        ELSE IF c1 = True3
        THEN
          [e1 EXCEPT !.idx = @ + 1]
        ELSE
          e1
        : e1 \in {metaphAddExactApprox(r1.e, "B", "P")}})
    : r1 \in {encodeSilentB(e)}})

\* metaphone3.go:218-223  (test)
encodeSilentCAtBeginning(e) ==
  IF ((e.idx = 0) /\ stringAt(e, 0, <<"CT", "CN">>))
  THEN
    TRUE
  ELSE
    FALSE

\* metaphone3.go:227-238  (rule)
encodeCaToS(e) ==
  IF (((e.idx = 0) /\ stringAt(e, 0, <<"CAES", "CAEC", "CAEM">>)) \/ stringStart(e, <<"FACADE", "FRANCAIS", "FRANCAIX", "LINGUICA", "GONCALVES", "PROVENCAL">>))
  THEN
    Ret(advanceCounter(metaphAdd(e, "S"), 1, 0), TRUE)
  ELSE
    Ret(e, FALSE)

\* metaphone3.go:242-253  (rule)
encodeCoToS(e) ==
  IF ((stringAt(e, 0, <<"COEL">>) /\ (isVowelAt(e, 4) \/ ((e.idx + 3) = e.lastIdx))) \/ stringAt(e, 0, <<"COENA", "COENO">>) \/ stringStart(e, <<"GARCON", "FRANCOIS", "MELANCON">>))
  THEN
    Ret(advanceCounter(metaphAdd(e, "S"), 2, 0), TRUE)
  ELSE
    Ret(e, FALSE)

\* metaphone3.go:287-301  (rule)
encodeChae(e) ==
  IF ((e.idx > 0) /\ stringAt(e, 2, <<"AE">>))
  THEN
    The({
      Ret(advanceCounter(e1, 3, 1), TRUE)
      : e1 \in {
        IF stringStart(e, <<"RACHAEL">>)
        THEN
          metaphAdd(e, "X")
        ELSE
          IF ~stringAt(e, -1, <<"C", "K", "G", "Q">>)
          THEN
            metaphAdd(e, "K")
          ELSE
            e}})
  ELSE
    Ret(e, FALSE)

\* metaphone3.go:307-321  (rule)
encodeChToH(e) ==
  IF (((e.idx = 0) /\ stringAt(e, 2, <<"AIM", "ETH", "ELM", "ASID", "AZAN", "UPPAH", "UTZPA", "ALLAH", "ALUTZ", "AMETZ", "ESHVAN", "ADARIM", "ANUKAH", "ALLLOTH", "ANNUKAH", "AROSETH">>)) \/ stringAt(e, -3, <<"CLACHAN">>))
  THEN
    Ret(advanceCounter(metaphAdd(e, "H"), 2, 1), TRUE)
  ELSE
    Ret(e, FALSE)

\* metaphone3.go:323-332  (rule)
encodeSilentCh(e) ==
  IF (stringAt(e, -2, <<"YACHT", "FUCHSIA">>) \/ stringStart(e, <<"STRACHAN", "CRICHTON">>) \/ (stringAt(e, -3, <<"DRACHM">>) /\ ~stringAt(e, -3, <<"DRACHMA">>)))
  THEN
    Ret([e EXCEPT !.idx = @ + 1], TRUE)
  ELSE
    Ret(e, FALSE)

\* metaphone3.go:334-352  (rule)
encodeChToX(e) ==
  IF ((stringAt(e, -2, <<"OACH", "EACH", "EECH", "OUCH", "OOCH", "MUCH", "SUCH">>) /\ ~stringAt(e, -3, <<"JOACH">>)) \/ stringAtEnd(e, -1, <<"ACHA", "ACHO">>) \/ stringAtEnd(e, 0, <<"CHOT", "CHOD", "CHAT">>) \/ (stringAtEnd(e, -1, <<"OCHE">>) /\ ~stringAt(e, -2, <<"DOCHE">>)) \/ stringAt(e, -4, <<"ATTACH", "DETACH", "KOVACH", "PARACHUT">>) \/ stringAt(e, -5, <<"SPINACH", "MASSACHU">>) \/ stringStart(e, <<"MACHAU">>) \/ (stringAt(e, -3, <<"THACH">>) /\ ~stringAt(e, 2, <<"E">>)) \/ stringAt(e, -2, <<"VACHON">>))
  THEN
    Ret([metaphAdd(e, "X") EXCEPT !.idx = @ + 1], TRUE)
  ELSE
    Ret(e, FALSE)

\* faulty variant of encodeEnglishChToK: the alternate X is forgotten
encodeEnglishChToK_primaryOnly(e) ==
  IF (e.idx = 1) /\ rootOrInflections(e.in, "ACHE")
  THEN
    Ret([metaphAdd(e, "K") EXCEPT !.idx = @ + 1], TRUE)
  ELSE
    Ret(e, FALSE)

\* metaphone3.go:354-370  (rule)
encodeEnglishChToK(e) ==
  IF (((e.idx = 1) /\ rootOrInflections(e.in, "ACHE")) \/ (((e.idx > 3) /\ rootOrInflections(sliceFrom(e.in, e.idx - 1), "ACHE")) /\ stringStart(e, <<"EAR", "HEAD", "BACK", "HEART", "BELLY", "TOOTH">>)) \/ stringAt(e, -1, <<"ECHO">>) \/ stringAt(e, -2, <<"MICHEAL">>) \/ stringAt(e, -4, <<"JERICHO">>) \/ stringAt(e, -5, <<"LEPRECH">>))
  THEN
    Ret([metaphAddAlt(e, "K", "X") EXCEPT !.idx = @ + 1], TRUE)
  ELSE
    Ret(e, FALSE)

\* metaphone3.go:372-415  (rule)
encodeGermanicChToK(e) ==
  IF ((((e.idx > 1) /\ ~isVowelAt(e, -2) /\ stringAt(e, -1, <<"ACH">>) /\ ~stringAt(e, -2, <<"MACHADO", "MACHUCA", "LACHANC", "LACHAPE", "KACHATU">>) /\ ~stringAt(e, -3, <<"KHACHAT">>) /\ (~charAt(e, 2, "I") /\ (~charAt(e, 2, "E") \/ stringAt(e, -2, <<"BACHER", "MACHER", "MACHEN", "LACHER">>)))) \/ (stringAt(e, 2, <<"T", "S">>) /\ ~stringStart(e, <<"WHICHSOEVER", "LUNCHTIME">>)) \/ stringStart(e, <<"SCHR">>) \/ ((e.idx > 2) /\ stringAt(e, -2, <<"MACHE">>)) \/ ((e.idx = 2) /\ stringAt(e, -2, <<"ZACH">>)) \/ stringAt(e, -4, <<"SCHACH">>) \/ stringAt(e, -1, <<"ACHEN">>) \/ stringAt(e, -3, <<"SPICH", "ZURCH", "BUECH">>) \/ (stringAt(e, -3, <<"KIRCH", "JOACH", "BLECH", "MALCH">>) /\ ~(stringAt(e, -3, <<"KIRCHNER">>) \/ ((e.idx + 1) = e.lastIdx))) \/ stringAtEnd(e, -2, <<"NICH", "LICH", "BACH">>) \/ (stringAtEnd(e, -3, <<"URICH", "BRICH", "ERICH", "DRICH", "NRICH">>) /\ ~stringAtEnd(e, -5, <<"ALDRICH">>) /\ ~stringAtEnd(e, -6, <<"GOODRICH">>) /\ ~stringAtEnd(e, -7, <<"GINGERICH">>))) \/ stringAtEnd(e, -4, <<"ULRICH", "LFRICH", "LLRICH", "EMRICH", "ZURICH", "EYRICH">>) \/ ((stringAt(e, -1, <<"A", "O", "U", "E">>) \/ (e.idx = 0)) /\ stringAt(e, 2, <<"L", "R", "N", "M", "B", "H", "F", "V", "W", " ">>)))
  THEN
    The({
      Ret([e1 EXCEPT !.idx = @ + 1], TRUE)
      : e1 \in {
        IF (stringAt(e, 2, <<"R", "L">>) \/ isSlavoGermanic(e))
        THEN
          metaphAdd(e, "K")
        ELSE
          metaphAddAlt(e, "K", "X")}})
  ELSE
    Ret(e, FALSE)

\* metaphone3.go:419-445  (rule)
encodeArch(e) ==
  IF stringAt(e, -2, <<"ARCH">>)
  THEN
    The({
      Ret([e1 EXCEPT !.idx = @ + 1], TRUE)
      : e1 \in {
        IF (((isVowelAt(e, 2) /\ stringAt(e, -2, <<"ARCHA", "ARCHI", "ARCHO", "ARCHU", "ARCHY">>)) \/ stringAt(e, -2, <<"ARCHEA", "ARCHEG", "ARCHEO", "ARCHET", "ARCHEL", "ARCHES", "ARCHEP", "ARCHEM", "ARCHEN">>) \/ stringAtEnd(e, -2, <<"ARCH">>) \/ stringStart(e, <<"MENARCH">>)) /\ (~rootOrInflections(e.in, "ARCH") /\ ~stringAt(e, -4, <<"SEARCH", "POARCH">>) /\ ~stringStart(e, <<"ARCHER", "ARCHIE", "ARCHENEMY", "ARCHIBALD", "ARCHULETA", "ARCHAMBAU">>) /\ ~((((stringAt(e, -3, <<"LARCH", "MARCH", "PARCH">>) \/ stringAt(e, -4, <<"STARCH">>)) /\ ~stringStart(e, <<"EPARCH", "NOMARCH", "EXILARCH", "HIPPARCH", "MARCHESE", "ARISTARCH", "MARCHETTI">>)) \/ rootOrInflections(e.in, "STARCH")) /\ (~stringAt(e, -2, <<"ARCHU", "ARCHY">>) \/ stringStart(e, <<"STARCHY">>)))))
        THEN
          metaphAddAlt(e, "K", "X")
        ELSE
          metaphAdd(e, "X")}})
  ELSE
    Ret(e, FALSE)

\* metaphone3.go:447-485  (rule)
encodeGreekChInitial(e) ==
  IF ((stringAt(e, 0, <<"CHAMOM", "CHARAC", "CHARIS", "CHARTO", "CHARTU", "CHARYB", "CHRIST", "CHEMIC", "CHILIA">>) \/ (stringAt(e, 0, <<"CHEMI", "CHEMO", "CHEMU", "CHEMY", "CHOND", "CHONA", "CHONI", "CHOIR", "CHASM", "CHARO", "CHROM", "CHROI", "CHAMA", "CHALC", "CHALD", "CHAET", "CHIRO", "CHILO", "CHELA", "CHOUS", "CHEIL", "CHEIR", "CHEIM", "CHITI", "CHEOP">>) /\ ~(stringAt(e, 0, <<"CHEMIN">>) \/ stringAt(e, -2, <<"ANCHONDO">>))) \/ (stringAt(e, 0, <<"CHISM", "CHELI">>) /\ ~(stringStart(e, <<"MICHEL", "MACHISMO", "RICHELIEU", "REVANCHISM">>) \/ stringExact(e, <<"CHISM">>))) \/ (stringAt(e, 0, <<"CHOR", "CHOL", "CHYM", "CHYL", "CHLO", "CHOS", "CHUS", "CHOE">>) /\ ~stringStart(e, <<"CHOLLO", "CHOLLA", "CHORIZ">>)) \/ (stringAt(e, 0, <<"CHAO">>) /\ ((e.idx + 3) # e.lastIdx)) \/ (stringAt(e, 0, <<"CHIA">>) /\ ~stringStart(e, <<"CHIAPAS", "APPALACHIA">>)) \/ stringAt(e, 0, <<"CHIMERA", "CHIMAER", "CHIMERI">>) \/ stringStart(e, <<"CHAME", "CHELO", "CHITO">>) \/ ((((e.idx + 4) = e.lastIdx) \/ ((e.idx + 5) = e.lastIdx)) /\ stringAt(e, -1, <<"OCHETE">>))) /\ ~(stringExact(e, <<"CHORE", "CHOLO", "CHOLA">>) \/ stringAt(e, 0, <<"CHORT", "CHOSE">>) \/ stringAt(e, -3, <<"CROCHET">>) \/ stringStart(e, <<"CHEMISE", "CHARISE", "CHARISS", "CHAROLE">>)))
  THEN
    The({
      Ret([e1 EXCEPT !.idx = @ + 1], TRUE)
      : e1 \in {
        IF stringAt(e, 2, <<"R", "L">>)
        THEN
          metaphAdd(e, "K")
        ELSE
          metaphAddAlt(e, "K", "X")}})
  ELSE
    Ret(e, FALSE)

\* metaphone3.go:487-520  (rule)
encodeGreekChNonInitial(e) ==
  IF (stringAt(e, -2, <<"LYCHN", "TACHO", "ORCHO", "ORCHI", "LICHO", "ORCHID", "NICHOL", "MECHAN", "LICHEN", "MACHIC", "PACHEL", "RACHIF", "RACHID", "RACHIS", "RACHIC", "MICHAL", "ORCHESTR">>) \/ stringAt(e, -3, <<"MELCH", "GLOCH", "TRACH", "TROCH", "BRACH", "SYNCH", "PSYCH", "STICH", "PULCH", "EPOCH">>) \/ (stringAt(e, -3, <<"TRICH">>) /\ ~stringAt(e, -5, <<"OSTRICH">>)) \/ (stringAt(e, -2, <<"TYCH", "TOCH", "BUCH", "MOCH", "CICH", "DICH", "NUCH", "EICH", "LOCH", "DOCH", "ZECH", "WYCH">>) /\ ~(stringAt(e, -4, <<"INDOCHINA">>) \/ stringAt(e, -2, <<"BUCHON">>))) \/ (((e.idx = 1) \/ (e.idx = 2)) /\ stringAt(e, -1, <<"OCHER", "ECHIN", "ECHID">>)) \/ stringAt(e, -4, <<"BRONCH", "STOICH", "STRYCH", "TELECH", "PLANCH", "CATECH", "MANICH", "MALACH", "BIANCH", "DIDACH", "BRANCHIO", "BRANCHIF">>) \/ stringStart(e, <<"ICHA", "ICHN">>) \/ (stringAt(e, -1, <<"ACHAB", "ACHAD", "ACHAN", "ACHAZ">>) /\ ~stringAt(e, -2, <<"MACHADO", "LACHANC">>)) \/ stringAt(e, -1, <<"ACHISH", "ACHILL", "ACHAIA", "ACHENE", "ACHAIAN", "ACHATES", "ACHIRAL", "ACHERON", "ACHILLEA", "ACHIMAAS", "ACHILARY", "ACHELOUS", "ACHENIAL", "ACHERNAR", "ACHALASIA", "ACHILLEAN", "ACHIMENES", "ACHIMELECH", "ACHITOPHEL">>) \/ (((e.idx = 2) /\ stringStart(e, <<"INCHOA">>)) \/ stringStart(e, <<"ISCH">>)) \/ (((e.idx + 1) = e.lastIdx) /\ stringAt(e, -1, <<"A", "O", "U", "E">>) /\ ~(stringStart(e, <<"DEBAUCH">>) \/ stringAt(e, -2, <<"MUCH", "SUCH", "KOCH">>) \/ stringAt(e, -5, <<"OODRICH", "ALDRICH">>))))
  THEN
    Ret([metaphAddAlt(e, "K", "X") EXCEPT !.idx = @ + 1], TRUE)
  ELSE
    Ret(e, FALSE)

\* metaphone3.go:255-285  (rule)
encodeCh(e) ==
  IF ~stringAt(e, 0, <<"CH">>)
  THEN
    Ret(e, FALSE)
  ELSE
    The({
      IF r1.ret
      THEN
        Ret(r1.e, TRUE)
      ELSE
        The({
          IF r2.ret
          THEN
            Ret(r2.e, TRUE)
          ELSE
            The({
              IF r3.ret
              THEN
                Ret(r3.e, TRUE)
              ELSE
                The({
                  IF r4.ret
                  THEN
                    Ret(r4.e, TRUE)
                  ELSE
                    The({
                      IF r5.ret
                      THEN
                        Ret(r5.e, TRUE)
                      ELSE
                        The({
                          IF r6.ret
                          THEN
                            Ret(r6.e, TRUE)
                          ELSE
                            The({
                              IF r7.ret
                              THEN
                                Ret(r7.e, TRUE)
                              ELSE
                                The({
                                  IF r8.ret
                                  THEN
                                    Ret(r8.e, TRUE)
                                  ELSE
                                    The({
                                      IF r9.ret
                                      THEN
                                        Ret(r9.e, TRUE)
                                      ELSE
                                        The({
                                          Ret([e1 EXCEPT !.idx = @ + 1], TRUE)
                                          : e1 \in {
                                            IF r9.e.idx > 0
                                            THEN
                                              IF (stringStart(r9.e, <<"MC">>) /\ (r9.e.idx = 1))
                                              THEN
                                                metaphAdd(r9.e, "K")
                                              ELSE
                                                metaphAddAlt(r9.e, "X", "K")
                                            ELSE
                                              metaphAdd(r9.e, "X")}})
                                      : r9 \in {encodeGreekChNonInitial(r8.e)}})
                                  : r8 \in {encodeGreekChInitial(r7.e)}})
                              : r7 \in {encodeGermanicChToK(r6.e)}})
                          : r6 \in {encodeEnglishChToK(r5.e)}})
                      : r5 \in {encodeChToX(r4.e)}})
                  : r4 \in {encodeArch(r3.e)}})
              : r3 \in {encodeSilentCh(r2.e)}})
          : r2 \in {encodeChToH(r1.e)}})
      : r1 \in {encodeChae(e)}})

\* metaphone3.go:523-532  (rule)
encodeCcia(e) ==
  IF stringAt(e, 1, <<"CIA">>)
  THEN
    Ret([metaphAddAlt(e, "X", "S") EXCEPT !.idx = @ + 1], TRUE)
  ELSE
    Ret(e, FALSE)

\* metaphone3.go:534-566  (rule)
encodeCc(e) ==
  LET c1 == And3(B3(stringAt(e, 0, <<"CC">>)), Not3(And3(B3(e.idx = 1), Idx3(e.in, 0, "M")))) IN
  IF c1 = Panic3 THEN Ret(Panic(e), TRUE)
  ELSE IF c1 = True3
  THEN
    IF stringAt(e, -3, <<"FLACCID">>)
    THEN
      Ret(advanceCounter(metaphAdd(e, "S"), 2, 1), TRUE)
    ELSE
      IF (stringAtEnd(e, 2, <<"I">>) \/ stringAt(e, 2, <<"IO">>) \/ stringAtEnd(e, 2, <<"INO", "INI">>))
      THEN
        Ret(advanceCounter(metaphAdd(e, "X"), 2, 1), TRUE)
      ELSE
        IF (stringAt(e, 2, <<"I", "E", "Y">>) /\ ~(charAt(e, 2, "H") \/ stringAt(e, -2, <<"SOCCER">>)))
        THEN
          Ret(advanceCounter(metaphAddStr(e, "KS", "KS"), 2, 1), TRUE)
        ELSE
          Ret([metaphAdd(e, "K") EXCEPT !.idx = @ + 1], TRUE)
  ELSE
    Ret(e, FALSE)

\* metaphone3.go:568-587  (rule)
encodeCkCgCq(e) ==
  IF stringAt(e, 0, <<"CK", "CG", "CQ">>)
  THEN
    The({
      The({
        The({
          Ret(e5, TRUE)
          : e5 \in {
            IF stringAt(e4, 1, <<"K", "G", "Q">>)
            THEN
              [e4 EXCEPT !.idx = @ + 1]
            ELSE
              e4}})
        : e4 \in {[e1 EXCEPT !.idx = @ + 1]}})
      : e1 \in {
        IF (stringAtEnd(e, 0, <<"CKI", "CKY">>) /\ (Len(e.in) > 6))
        THEN
          metaphAddStr(e, "K", "SK")
        ELSE
          metaphAdd(e, "K")}})
  ELSE
    Ret(e, FALSE)

\* metaphone3.go:610-617  (test)
encodeBritishSilentCE(e) ==
  IF (stringAtEnd(e, 1, <<"ESTER">>) \/ stringAt(e, 1, <<"ESTERSHIRE">>))
  THEN
    TRUE
  ELSE
    FALSE

\* metaphone3.go:619-633  (rule)
encodeCe(e) ==
  IF ((stringAt(e, 1, <<"EAN">>) /\ isVowelAt(e, -1)) \/ (stringAtEnd(e, -1, <<"ACEA">>) /\ ~stringStart(e, <<"PANACEA">>)) \/ stringAt(e, 1, <<"ELLI", "ERTO", "EORL">>) \/ stringAtEnd(e, -3, <<"CROCE">>) \/ stringAt(e, -3, <<"DOLCE">>) \/ stringAtEnd(e, 1, <<"ELLO">>))
  THEN
    Ret(metaphAddAlt(e, "X", "S"), TRUE)
  ELSE
    Ret(e, FALSE)

\* metaphone3.go:635-681  (rule)
encodeCi(e) ==
  IF ((stringAtEnd(e, 1, <<"INI">>) /\ ~stringExact(e, <<"MANCINI">>)) \/ stringAtEnd(e, -1, <<"ICI">>) \/ stringAt(e, -1, <<"RCIAL", "NCIAL", "RCIAN", "UCIUS">>) \/ stringAt(e, -3, <<"MARCIA">>) \/ stringAt(e, -2, <<"ANCIENT">>))
  THEN
    Ret(metaphAddAlt(e, "X", "S"), TRUE)
  ELSE
    IF stringAt(e, -4, <<"COERCION">>)
    THEN
      Ret(metaphAdd(e, "J"), TRUE)
    ELSE
      IF ((stringAt(e, 0, <<"CIO", "CIE", "CIA">>) /\ isVowelAt(e, -1)) \/ stringAt(e, 1, <<"IAO">>))
      THEN
        The({
          Ret(e3, TRUE)
          : e3 \in {
            IF ((stringAt(e, 0, <<"CIAN", "CIAL", "CIAO", "CIES", "CIOL", "CION">>) \/ stringAt(e, -3, <<"GLACIER">>) \/ stringAt(e, 0, <<"CIENT", "CIENC", "CIOUS", "CIATE", "CIATI", "CIATO", "CIABL", "CIARY">>) \/ stringAtEnd(e, 0, <<"CIA", "CIO", "CIAS", "CIOS">>)) /\ ~(stringAt(e, -4, <<"ASSOCIATION">>) \/ stringStart(e, <<"OCIE">>) \/ stringAt(e, -2, <<"LUCIO", "SOCIO", "SOCIE", "MACIAS", "LUCIANO", "HACIENDA">>) \/ stringAt(e, -3, <<"GRACIE", "GRACIA", "MARCIANO">>) \/ stringAt(e, -4, <<"PALACIO", "POLICIES", "FELICIANO">>) \/ stringAt(e, -5, <<"MAURICIO">>) \/ stringAt(e, -6, <<"ANDALUCIA">>) \/ stringAt(e, -7, <<"ENCARNACION">>)))
            THEN
              metaphAddAlt(e, "X", "S")
            ELSE
              metaphAddAlt(e, "S", "X")}})
      ELSE
        Ret(e, FALSE)

\* metaphone3.go:683-689  (rule)
encodeLatinateSuffixes(e) ==
  IF stringAt(e, 1, <<"EOUS", "IOUS">>)
  THEN
    Ret(metaphAddAlt(e, "X", "S"), TRUE)
  ELSE
    Ret(e, FALSE)

\* metaphone3.go:591-608  (rule)
encodeCFrontVowel(e) ==
  IF stringAt(e, 0, <<"CI", "CE", "CY">>)
  THEN
    IF encodeBritishSilentCE(e)
    THEN
      Ret(advanceCounter(e, 1, 0), TRUE)
    ELSE
      The({
        IF r1.ret
        THEN
          Ret(advanceCounter(r1.e, 1, 0), TRUE)
        ELSE
          The({
            IF r2.ret
            THEN
              Ret(advanceCounter(r2.e, 1, 0), TRUE)
            ELSE
              The({
                IF r3.ret
                THEN
                  Ret(advanceCounter(r3.e, 1, 0), TRUE)
                ELSE
                  Ret(advanceCounter(metaphAdd(r3.e, "S"), 1, 0), TRUE)
                : r3 \in {encodeLatinateSuffixes(r2.e)}})
            : r2 \in {encodeCi(r1.e)}})
        : r1 \in {encodeCe(e)}})
  ELSE
    Ret(e, FALSE)

\* metaphone3.go:691-697  (test)
encodeSilentC(e) ==
  IF (stringAt(e, 1, <<"T", "S">>) /\ stringStart(e, <<"INDICT", "TUCSON", "CONNECTICUT">>))
  THEN
    TRUE
  ELSE
    FALSE

\* metaphone3.go:701-714  (rule)
encodeCz(e) ==
  IF (stringAt(e, 1, <<"Z">>) /\ ~stringAt(e, -1, <<"ECZEMA">>))
  THEN
    The({
      Ret([e1 EXCEPT !.idx = @ + 1], TRUE)
      : e1 \in {
        IF stringAt(e, 0, <<"CZAR">>)
        THEN
          metaphAdd(e, "S")
        ELSE
          metaphAdd(e, "X")}})
  ELSE
    Ret(e, FALSE)

\* metaphone3.go:716-734  (rule)
encodeCs(e) ==
  IF stringStart(e, <<"KOVACS">>)
  THEN
    Ret([metaphAddStr(e, "KS", "X") EXCEPT !.idx = @ + 1], TRUE)
  ELSE
    IF (stringAtEnd(e, -1, <<"ACS">>) /\ ~stringAt(e, -4, <<"ISAACS">>))
    THEN
      Ret([metaphAdd(e, "X") EXCEPT !.idx = @ + 1], TRUE)
    ELSE
      Ret(e, FALSE)

\* metaphone3.go:185-216  (rule)
encodeC(e) ==
  IF encodeSilentCAtBeginning(e)
  THEN
    e
  ELSE
    The({
      IF r1.ret
      THEN
        r1.e
      ELSE
        The({
          IF r2.ret
          THEN
            r2.e
          ELSE
            The({
              IF r3.ret
              THEN
                r3.e
              ELSE
                The({
                  IF r4.ret
                  THEN
                    r4.e
                  ELSE
                    The({
                      IF r5.ret
                      THEN
                        r5.e
                      ELSE
                        The({
                          IF r6.ret
                          THEN
                            r6.e
                          ELSE
                            The({
                              IF r7.ret
                              THEN
                                r7.e
                              ELSE
                                IF encodeSilentC(r7.e)
                                THEN
                                  r7.e
                                ELSE
                                  The({
                                    IF r8.ret
                                    THEN
                                      r8.e
                                    ELSE
                                      The({
                                        IF r9.ret
                                        THEN
                                          r9.e
                                        ELSE
                                          The({
                                            IF stringAt(e1, 1, <<" C", " Q", " G">>)
                                            THEN
                                              [e1 EXCEPT !.idx = @ + 1]
                                            ELSE
                                              IF (stringAt(e1, 1, <<"C", "K", "Q">>) /\ ~stringAt(e1, 1, <<"CE", "CI">>))
                                              THEN
                                                The({
                                                  IF (stringAt(e4, 1, <<"C", "K", "Q">>) /\ ~stringAt(e4, 2, <<"CE", "CI">>))
                                                  THEN
                                                    [e4 EXCEPT !.idx = @ + 1]
                                                  ELSE
                                                    e4
                                                  : e4 \in {[e1 EXCEPT !.idx = @ + 1]}})
                                              ELSE
                                                e1
                                            : e1 \in {
                                              IF ~stringAt(r9.e, -1, <<"C", "K", "G", "Q">>)
                                              THEN
                                                metaphAdd(r9.e, "K")
                                              ELSE
                                                r9.e}})
                                        : r9 \in {encodeCs(r8.e)}})
                                    : r8 \in {encodeCz(r7.e)}})
                              : r7 \in {encodeCFrontVowel(r6.e)}})
                          : r6 \in {encodeCkCgCq(r5.e)}})
                      : r5 \in {encodeCc(r4.e)}})
                  : r4 \in {encodeCcia(r3.e)}})
              : r3 \in {encodeCh(r2.e)}})
          : r2 \in {encodeCoToS(r1.e)}})
      : r1 \in {encodeCaToS(e)}})

\* metaphone3.go:755-779  (rule)
encodeDg(e) ==
  IF stringAt(e, 0, <<"DG">>)
  THEN
    The({
      Ret([e1 EXCEPT !.idx = @ + 1], TRUE)
      : e1 \in {
        IF (stringAt(e, 2, <<"A", "O">>) \/ stringAt(e, 1, <<"GUN", "GUT", "GEAR", "GLAS", "GRIP", "GREN", "GILL", "GRAF", "GUARD", "GUILT", "GRAVE", "GRASS", "GROUSE">>))
        THEN
          metaphAddExactApprox(e, "DG", "TK")
        ELSE
          metaphAdd(e, "J")}})
  ELSE
    Ret(e, FALSE)

\* metaphone3.go:781-789  (rule)
encodeDj(e) ==
  IF stringAt(e, 0, <<"DJ">>)
  THEN
    Ret([metaphAdd(e, "J") EXCEPT !.idx = @ + 1], TRUE)
  ELSE
    Ret(e, FALSE)

\* metaphone3.go:791-814  (rule)
encodeDtDd(e) ==
  IF stringAt(e, 0, <<"DT", "DD">>)
  THEN
    The({
      Ret(e1, TRUE)
      : e1 \in {
        IF stringAt(e, 0, <<"DTH">>)
        THEN
          [metaphAddExactApprox(e, "D0", "T0") EXCEPT !.idx = @ + 2]
        ELSE
          The({
            [e5 EXCEPT !.idx = @ + 1]
            : e5 \in {
              IF e.EncodeExact
              THEN
                IF stringAt(e, 0, <<"DT">>)
                THEN
                  metaphAdd(e, "T")
                ELSE
                  metaphAdd(e, "D")
              ELSE
                metaphAdd(e, "T")}})}})
  ELSE
    Ret(e, FALSE)

\* metaphone3.go:816-831  (rule)
encodeDToJ(e) ==
  IF ((stringAt(e, 0, <<"DUL">>) /\ isVowelAt(e, -1) /\ isVowelAt(e, 3)) \/ stringAtEnd(e, -1, <<"LDIER", "NDEUR", "EDURE", "RDURE">>) \/ stringAt(e, -3, <<"CORDIAL">>) \/ stringAt(e, -1, <<"ADUA", "IDUA", "IDUU", "NDULA", "NDULU", "EDUCA">>))
  THEN
    Ret(advanceCounter(metaphAddExactApproxAlt(e, "J", "D", "J", "T"), 1, 0), TRUE)
  ELSE
    Ret(e, FALSE)

\* metaphone3.go:833-841  (rule)
encodeDous(e) ==
  IF stringAt(e, 1, <<"UOUS">>)
  THEN
    Ret(advanceCounter(metaphAddExactApproxAlt(e, "J", "D", "J", "T"), 3, 0), TRUE)
  ELSE
    Ret(e, FALSE)

\* metaphone3.go:843-849  (test)
encodeSilentD(e) ==
  (stringAt(e, -2, <<"WEDNESDAY">>) \/ stringAt(e, -3, <<"HANDKER", "HANDSOM", "WINDSOR">>) \/ stringEnd(e, <<"PERNOD", "ARTAUD", "RENAUD", "RIMBAUD", "MICHAUD", "BICHAUD">>))

\* faulty variant of encodeD: every D is silent
encodeD_silent(e) == e

\* metaphone3.go:736-753  (rule)
encodeD(e) ==
  The({
    IF r1.ret
    THEN
      r1.e
    ELSE
      The({
        IF r2.ret
        THEN
          r2.e
        ELSE
          The({
            IF r3.ret
            THEN
              r3.e
            ELSE
              The({
                IF r4.ret
                THEN
                  r4.e
                ELSE
                  The({
                    IF r5.ret
                    THEN
                      r5.e
                    ELSE
                      IF encodeSilentD(r5.e)
                      THEN
                        r5.e
                      ELSE
                        IF r5.e.EncodeExact
                        THEN
                          IF stringAtEnd(r5.e, -3, <<"SSED">>)
                          THEN
                            metaphAdd(r5.e, "T")
                          ELSE
                            metaphAdd(r5.e, "D")
                        ELSE
                          metaphAdd(r5.e, "T")
                    : r5 \in {encodeDous(r4.e)}})
                : r4 \in {encodeDToJ(r3.e)}})
            : r3 \in {encodeDtDd(r2.e)}})
        : r2 \in {encodeDj(r1.e)}})
    : r1 \in {encodeDg(e)}})

\* metaphone3.go:851-866  (rule)
encodeF(e) ==
  IF stringAt(e, -1, <<"OFTEN">>)
  THEN
    [metaphAddStr(e, "F", "FT") EXCEPT !.idx = @ + 1]
  ELSE
    The({
      metaphAdd(e4, "F")
      : e4 \in {
        IF charNextIs(e, "F")
        THEN
          [e EXCEPT !.idx = @ + 1]
        ELSE
          e}})

\* metaphone3.go:869-875  (rule)
encodeG(e) ==
  IF ~stringAt(e, -1, <<"C", "K", "G", "Q">>)
  THEN
    metaphAddExactApprox(e, "G", "K")
  ELSE
    e

\* metaphone3.go:889-911  (rule)
encodeInitialSilentH(e) ==
  IF stringAt(e, 1, <<"OUR", "ERB", "EIR", "ONOR", "ONOUR", "ONEST">>)
  THEN
    The({
      Ret(idxSkipVowels(e1, e1.idx + 1), TRUE)
      : e1 \in {
        IF stringAtStart(e, 0, <<"HERB">>)
        THEN
          IF e.EncodeVowels
          THEN
            metaphAddStr(e, "HA", "A")
          ELSE
            metaphAddAlt(e, "H", "A")
        ELSE
          IF ((e.idx = 0) \/ e.EncodeVowels)
          THEN
            metaphAdd(e, "A")
          ELSE
            e}})
  ELSE
    Ret(e, FALSE)

\* metaphone3.go:913-922  (rule)
encodeInitialHs(e) ==
  IF stringAtStart(e, 0, <<"HS">>)
  THEN
    Ret([metaphAdd(e, "X") EXCEPT !.idx = @ + 1], TRUE)
  ELSE
    Ret(e, FALSE)

\* metaphone3.go:946-958  (rule)
encodeNonInitialSilentH(e) ==
  IF (stringAt(e, -2, <<"NIHIL", "VEHEM", "LOHEN", "NEHEM", "MAHON", "MAHAN", "COHEN", "GAHAN">>) \/ stringAt(e, -3, <<"TOUHY", "GRAHAM", "PROHIB", "FRAHER", "TOOHEY", "TOUHEY">>) \/ stringStart(e, <<"CHIHUAHUA">>))
  THEN
    The({
      Ret(e1, TRUE)
      : e1 \in {
        IF e.EncodeVowels
        THEN
          [e EXCEPT !.idx = @ + 1]
        ELSE
          idxSkipVowels(e, e.idx + 1)}})
  ELSE
    Ret(e, FALSE)

\* metaphone3.go:960-972  (rule)
encodeHPronounced(e) ==
  LET c1 == Or3(And3(Or3(B3(((e.idx = 0) \/ isVowelAt(e, -1))), And3(B3(e.idx > 0), charAt3(e, -1, "W"))), B3(isVowelAt(e, 1))), B3((charNextIs(e, "H") /\ isVowelAt(e, 2)))) IN
  IF c1 = Panic3 THEN Ret(Panic(e), TRUE)
  ELSE IF c1 = True3
  THEN
    Ret(advanceCounter(metaphAdd(e, "H"), 1, 0), TRUE)
  ELSE
    Ret(e, FALSE)

\* metaphone3.go:877-887  (rule)
encodeH(e) ==
  The({
    IF r1.ret
    THEN
      r1.e
    ELSE
      The({
        IF r2.ret
        THEN
          r2.e
        ELSE
          The({
            IF r3.ret
            THEN
              r3.e
            ELSE
              The({
                IF r4.ret
                THEN
                  r4.e
                ELSE
                  The({
                    IF r5.ret
                    THEN
                      r5.e
                    ELSE
                      r5.e
                    : r5 \in {encodeHPronounced(r4.e)}})
                : r4 \in {encodeNonInitialSilentH(r3.e)}})
            : r3 \in {encodeInitialHuHw(r2.e)}})
        : r2 \in {encodeInitialHs(r1.e)}})
    : r1 \in {encodeInitialSilentH(e)}})

\* metaphone3.go:1001-1053  (rule)
encodeSpanishJ(e) ==
  IF ((stringAt(e, 1, <<"UAN", "ACI", "ALI", "EFE", "ICA", "IME", "OAQ", "UAR">>) /\ ~stringAt(e, 0, <<"JIMERSON", "JIMERSEN">>)) \/ stringAtEnd(e, 1, <<"OSE">>) \/ stringAt(e, 1, <<"EREZ", "UNTA", "AIME", "AVIE", "AVIA", "IMINEZ", "ARAMIL">>) \/ stringAtEnd(e, -2, <<"MEJIA">>) \/ stringAt(e, -2, <<"TEJED", "TEJAD", "LUJAN", "FAJAR", "BEJAR", "BOJOR", "CAJIG", "DEJAS", "DUJAR", "DUJAN", "MIJAR", "MEJOR", "NAJAR", "NOJOS", "RAJED", "RIJAL", "REJON", "TEJAN", "UIJAN">>) \/ stringAt(e, -3, <<"ALEJANDR", "GUAJARDO", "TRUJILLO">>) \/ (stringAt(e, -2, <<"RAJAS">>) /\ (e.idx > 2)) \/ (stringAt(e, -2, <<"MEJIA">>) /\ ~stringAt(e, -2, <<"MEJIAN">>)) \/ stringAt(e, -1, <<"OJEDA">>) \/ stringAt(e, -3, <<"LEIJA", "MINJA", "VIAJES", "GRAJAL">>) \/ stringAt(e, 0, <<"JAUREGUI">>) \/ stringAt(e, -4, <<"HINOJOSA">>) \/ stringStart(e, <<"SAN ">>) \/ ((e.idx + 1) = e.lastIdx /\ charAt(e, 1, "O") /\ ~stringStart(e, <<"TOJO", "BANJO", "MARYJO">>)))
  THEN
    The({
      Ret(advanceCounter(e1, 1, 0), TRUE)
      : e1 \in {
        IF ~(stringAt(e, 0, <<"JUAN">>) \/ stringAt(e, 0, <<"JOAQ">>))
        THEN
          metaphAdd(e, "H")
        ELSE
          IF e.idx = 0
          THEN
            metaphAdd(e, "A")
          ELSE
            e}})
  ELSE
    IF (stringAt(e, 1, <<"ORGE", "ULIO", "ESUS">>) /\ ~stringStart(e, <<"JORGEN">>))
    THEN
      IF stringAtEnd(e, 1, <<"ORGE">>)
      THEN
        The({
          Ret(advanceCounter(e5, 4, 4), TRUE)
          : e5 \in {
            IF e.EncodeVowels
            THEN
              metaphAddStr(e, "JARJ", "HARHA")
            ELSE
              metaphAddStr(e, "JRJ", "HRH")}})
      ELSE
        Ret(advanceCounter(metaphAddAlt(e, "J", "H"), 1, 0), TRUE)
    ELSE
      Ret(e, FALSE)

\* metaphone3.go:1055-1065  (rule)
encodeGermanJ(e) ==
  IF (stringAt(e, 1, <<"AH", "UGO">>) \/ stringExact(e, <<"JOHANN">>) \/ (stringAt(e, 1, <<"UNG">>) /\ ~charAt(e, 4, "L")))
  THEN
    Ret(advanceCounter(metaphAdd(e, "A"), 1, 0), TRUE)
  ELSE
    Ret(e, FALSE)

\* metaphone3.go:1067-1080  (rule)
encodeSpanishOjUj(e) ==
  IF stringAt(e, 1, <<"OJOBA", "UJUY">>)
  THEN
    The({
      Ret(advanceCounter(e1, 3, 2), TRUE)
      : e1 \in {
        IF e.EncodeVowels
        THEN
          metaphAddStr(e, "HAH", "HAH")
        ELSE
          metaphAddStr(e, "HH", "HH")}})
  ELSE
    Ret(e, FALSE)

\* metaphone3.go:1142-1181  (test)
\* the names listed in namesBeginningWithJThatGetAltY, in the order of the source
jNamesThatGetAltY ==
  <<"JAN", "JON", "JAN", "JIN", "JEN", "JUHL", "JULY", "JOEL", "JOHN", "JOSH", "JUDE", "JUNE", "JONI", "JULI", "JENA", "JUNG", "JINA", "JANA", "JENI", "JOEL", "JANN", "JONA", "JENE", "JULE", "JANI", "JONG", "JOHN", "JEAN", "JUNG", "JONE", "JARA", "JUST", "JOST", "JAHN", "JACO", "JANG", "JUDE", "JONE", "JOANN", "JANEY", "JANAE", "JOANA", "JUTTA", "JULEE", "JANAY", "JANEE", "JETTA", "JOHNA", "JOANE", "JAYNA", "JANES", "JONAS", "JONIE", "JUSTA", "JUNIE", "JUNKO", "JENAE", "JULIO", "JINNY", "JOHNS", "JACOB", "JETER", "JAFFE", "JESKE", "JANKE", "JAGER", "JANIK", "JANDA", "JOSHI", "JULES", "JANTZ", "JEANS", "JUDAH", "JANUS", "JENNY", "JENEE", "JONAH", "JONAS", "JACOB", "JOSUE", "JOSEF", "JULES", "JULIE", "JULIA", "JANIE", "JANIS", "JENNA", "JANNA", "JEANA", "JENNI", "JEANE", "JONNA", "JORDAN", "JORDON", "JOSEPH", "JOSHUA", "JOSIAH", "JOSPEH", "JUDSON", "JULIAN", "JULIUS", "JUNIOR", "JUDITH", "JOESPH", "JOHNIE", "JOANNE", "JEANNE", "JOANNA", "JOSEFA", "JULIET", "JANNIE", "JANELL", "JASMIN", "JANINE", "JOHNNY", "JEANIE", "JEANNA", "JOHNNA", "JOELLE", "JOVITA", "JOSEPH", "JONNIE", "JANEEN", "JANINA", "JOANIE", "JAZMIN", "JOHNIE", "JANENE", "JOHNNY", "JONELL", "JENELL", "JANETT", "JANETH", "JENINE", "JOELLA", "JOEANN", "JULIAN", "JOHANA", "JENICE", "JANNET", "JANISE", "JULENE", "JOSHUA", "JANEAN", "JAIMEE", "JOETTE", "JANYCE", "JENEVA", "JORDAN", "JACOBS", "JENSEN", "JOSEPH", "JANSEN", "JORDON", "JULIAN", "JAEGER", "JACOBY", "JENSON", "JARMAN", "JOSLIN", "JESSEN", "JAHNKE", "JACOBO", "JULIEN", "JOSHUA", "JEPSON", "JULIUS", "JANSON", "JACOBI", "JUDSON", "JARBOE", "JOHSON", "JANZEN", "JETTON", "JUNKER", "JONSON", "JAROSZ", "JENNER", "JAGGER", "JASMIN", "JEPSEN", "JORDEN", "JANNEY", "JUHASZ", "JERGEN", "JAKOB", "JOHNSON", "JOHNNIE", "JASMINE", "JEANNIE", "JOHANNA", "JANELLE", "JANETTE", "JULIANA", "JUSTINA", "JOSETTE", "JOELLEN", "JENELLE", "JULIETA", "JULIANN", "JULISSA", "JENETTE", "JANETTA", "JOSELYN", "JONELLE", "JESENIA", "JANESSA", "JAZMINE", "JEANENE", "JOANNIE", "JADWIGA", "JOLANDA", "JULIANE", "JANUARY", "JEANICE", "JANELLA", "JEANETT", "JENNINE", "JOHANNE", "JOHNSIE", "JANIECE", "JOHNSON", "JENNELL", "JAMISON", "JANSSEN", "JOHNSEN", "JARDINE", "JAGGERS", "JURGENS", "JOURDAN", "JULIANO", "JOSEPHS", "JHONSON", "JOZWIAK", "JANICKI", "JELINEK", "JANSSON", "JOACHIM", "JANELLE", "JACOBUS", "JENNING", "JANTZEN", "JOHNNIE", "JOSEFINA", "JEANNINE", "JULIANNE", "JULIANNA", "JONATHAN", "JONATHON", "JEANETTE", "JANNETTE", "JEANETTA", "JOHNETTA", "JENNEFER", "JULIENNE", "JOSPHINE", "JEANELLE", "JOHNETTE", "JULIEANN", "JOSEFINE", "JULIETTA", "JOHNSTON", "JACOBSON", "JACOBSEN", "JOHANSEN", "JOHANSON", "JAWORSKI", "JENNETTE", "JELLISON", "JOHANNES", "JASINSKI", "JUERGENS", "JARNAGIN", "JEREMIAH", "JEPPESEN", "JARNIGAN", "JANOUSEK", "JOHNATHAN", "JOHNATHON", "JORGENSEN", "JEANMARIE", "JOSEPHINA", "JEANNETTE", "JOSEPHINE", "JEANNETTA", "JORGENSON", "JANKOWSKI", "JOHNSTONE", "JABLONSKI", "JOSEPHSON", "JOHANNSEN", "JURGENSEN", "JIMMERSON", "JOHANSSON", "JAKUBOWSKI">>

namesBeginningWithJThatGetAltY(e) ==
  stringStart(e, jNamesThatGetAltY)

\* metaphone3.go:1082-1105  (rule)
encodeJToJ(e) ==
  IF isVowelAt(e, 1)
  THEN
    The({
      Ret(idxSkipVowels(e1, e1.idx + 1), FALSE)
      : e1 \in {
        IF ((e.idx = 0) /\ namesBeginningWithJThatGetAltY(e))
        THEN
          IF e.EncodeVowels
          THEN
            metaphAddStr(e, "JA", "A")
          ELSE
            metaphAddAlt(e, "J", "A")
        ELSE
          IF e.EncodeVowels
          THEN
            metaphAddStr(e, "JA", "JA")
          ELSE
            metaphAdd(e, "J")}})
  ELSE
    Ret(metaphAdd(e, "J"), TRUE)

\* metaphone3.go:1107-1120  (rule)
encodeSpanishJ2(e) ==
  IF (stringAtStart(e, -2, <<"BOJA", "BAJA", "BEJA", "BOJO", "MOJA", "MOJI", "MEJI">>) \/ stringAtStart(e, -3, <<"FRIJO", "BRUJO", "BRUJA", "GRAJE", "GRIJA", "LEIJA", "QUIJA">>) \/ (stringAtEnd(e, -1, <<"OJA", "EJA", "AJOS", "EJOS", "OJAS", "OJOS", "UJON", "AJOZ", "AJAL", "UJAR", "EJON", "EJAN", "AJARA">>) /\ ~stringStart(e, <<"DEJA">>)))
  THEN
    Ret(advanceCounter(metaphAdd(e, "H"), 1, 0), TRUE)
  ELSE
    Ret(e, FALSE)

\* metaphone3.go:1122-1140  (rule)
encodeJAsVowel(e) ==
  IF stringAt(e, 0, <<"JEWSK">>)
  THEN
    Ret(metaphAddAlt(e, "J", ReplacementChar), TRUE)
  ELSE
    IF ((stringAt(e, 1, <<"L", "T", "K", "S", "N", "M">>) /\ ~stringAt(e, 2, <<"A">>)) \/ stringStart(e, <<"FJ", "WOJ", "LJUB", "BJOR", "HAJEK", "HALLELUJA", "LJUBLJANA">>) \/ stringAt(e, 0, <<"JAVIK", "JEVIC">>) \/ stringExact(e, <<"SONJA", "TANJA", "TONJA">>))
    THEN
      Ret(e, TRUE)
    ELSE
      Ret(e, FALSE)

\* metaphone3.go:974-999  (rule)
encodeJ(e) ==
  The({
    IF r1.ret
    THEN
      r1.e
    ELSE
      The({
        IF r2.ret
        THEN
          r2.e
        ELSE
          IF r2.e.idx = 0
          THEN
            The({
              IF r3.ret
              THEN
                r3.e
              ELSE
                The({
                  IF r4.ret
                  THEN
                    r4.e
                  ELSE
                    r4.e
                  : r4 \in {encodeJToJ(r3.e)}})
              : r3 \in {encodeGermanJ(r2.e)}})
          ELSE
            The({
              IF r5.ret
              THEN
                r5.e
              ELSE
                The({
                  IF r6.ret
                  THEN
                    IF charNextIs(r6.e, "J")
                    THEN
                      [r6.e EXCEPT !.idx = @ + 1]
                    ELSE
                      r6.e
                  ELSE
                    The({
                      IF charNextIs(e2, "J")
                      THEN
                        [e2 EXCEPT !.idx = @ + 1]
                      ELSE
                        e2
                      : e2 \in {metaphAdd(r6.e, "J")}})
                  : r6 \in {encodeJAsVowel(r5.e)}})
              : r5 \in {encodeSpanishJ2(r2.e)}})
        : r2 \in {encodeSpanishOjUj(r1.e)}})
    : r1 \in {encodeSpanishJ(e)}})

\* metaphone3.go:1194-1214  (rule)
encodeSilentK(e) ==
  IF ((e.idx = 0) /\ stringStart(e, <<"KN">>))
  THEN
    IF ~stringAt(e, 2, <<"ISH", "ESSET", "IEVEL">>)
    THEN
      Ret(e, TRUE)
    ELSE
      IF ((stringAt(e, 1, <<"NOW", "NIT", "NOT", "NOB">>) /\ ~stringStart(e, <<"BANKNOTE">>)) \/ stringAt(e, 1, <<"NOCK", "NUCK", "NIFE", "NACK", "NIGHT">>))
      THEN
        The({
          Ret(e1, TRUE)
          : e1 \in {
            LET c1 == And3(B3(e.idx > 0), charAt3(e, -1, "N")) IN
            IF c1 = Panic3 THEN Ret(Panic(e), TRUE)
            ELSE IF c1 = True3
            THEN
              [e EXCEPT !.idx = @ + 1]
            ELSE
              e}})
      ELSE
        Ret(e, FALSE)
  ELSE
    IF ((stringAt(e, 1, <<"NOW", "NIT", "NOT", "NOB">>) /\ ~stringStart(e, <<"BANKNOTE">>)) \/ stringAt(e, 1, <<"NOCK", "NUCK", "NIFE", "NACK", "NIGHT">>))
    THEN
      The({
        Ret(e3, TRUE)
        : e3 \in {
          LET c2 == And3(B3(e.idx > 0), charAt3(e, -1, "N")) IN
          IF c2 = Panic3 THEN Ret(Panic(e), TRUE)
          ELSE IF c2 = True3
          THEN
            [e EXCEPT !.idx = @ + 1]
          ELSE
            e}})
    ELSE
      Ret(e, FALSE)

\* metaphone3.go:1183-1192  (rule)
encodeK(e) ==
  The({
    IF r1.ret
    THEN
      r1.e
    ELSE
      The({
        IF (charAt(e1, 1, "K") \/ charAt(e1, 1, "Q"))
        THEN
          [e1 EXCEPT !.idx = @ + 1]
        ELSE
          e1
        : e1 \in {metaphAdd(r1.e, "K")}})
    : r1 \in {encodeSilentK(e)}})

\* metaphone3.go:1238-1243  (rule)
interpolateVowelWhenConsLAtEnd(e) ==
  IF (e.EncodeVowels /\ stringAtEnd(e, -1, <<"DL", "GL", "TL">>))
  THEN
    metaphAdd(e, "A")
  ELSE
    e

\* metaphone3.go:1245-1253  (rule)
encodeLelyToL(e) ==
  IF stringAtEnd(e, -1, <<"ILELY">>)
  THEN
    Ret([metaphAdd(e, "L") EXCEPT !.idx = @ + 2], TRUE)
  ELSE
    Ret(e, FALSE)

\* metaphone3.go:1255-1262  (rule)
encodeColonel(e) ==
  IF stringAt(e, -2, <<"COLONEL">>)
  THEN
    Ret([metaphAdd(e, "R") EXCEPT !.idx = @ + 1], TRUE)
  ELSE
    Ret(e, FALSE)

\* metaphone3.go:1264-1275  (rule)
encodeFrenchAult(e) ==
  IF ((e.idx > 3) /\ (stringAt(e, -3, <<"RAULT", "NAULT", "BAULT", "SAULT", "GAULT", "CAULT">>) \/ stringAt(e, -4, <<"REAULT", "RIAULT", "NEAULT", "BEAULT">>)) /\ ~(rootOrInflections(e.in, "ASSAULT") \/ stringAt(e, -8, <<"SOMERSAULT">>) \/ stringAt(e, -9, <<"SUMMERSAULT">>)))
  THEN
    Ret([e EXCEPT !.idx = @ + 1], TRUE)
  ELSE
    Ret(e, FALSE)

\* metaphone3.go:1277-1283  (test)
encodeFrenchEuil(e) ==
  IF stringAtEnd(e, -3, <<"EUIL">>)
  THEN
    TRUE
  ELSE
    FALSE

\* metaphone3.go:1285-1292  (rule)
encodeFrenchOulx(e) ==
  IF stringAtEnd(e, -2, <<"OULX">>)
  THEN
    Ret([e EXCEPT !.idx = @ + 1], TRUE)
  ELSE
    Ret(e, FALSE)

\* metaphone3.go:1294-1315  (rule)
encodeSilentLInLm(e) ==
  IF stringAt(e, 0, <<"LM", "LN">>)
  THEN
    The({
      Ret(e1, TRUE)
      : e1 \in {
        IF ((stringAt(e, -2, <<"COLN", "CALM", "BALM", "MALM", "PALM">>) \/ stringAtEnd(e, -1, <<"OLM">>) \/ stringAt(e, -3, <<"PSALM", "QUALM">>) \/ stringAt(e, -2, <<"SALMON", "HOLMES">>) \/ stringAt(e, -1, <<"ALMOND">>) \/ stringAtStart(e, -1, <<"ALMS">>)) /\ (~stringAt(e, 2, <<"A">>) /\ ~stringAt(e, -2, <<"BALMO", "PALMER", "PALMOR", "BALMER">>) /\ ~stringAt(e, -3, <<"THALM">>)))
        THEN
          e
        ELSE
          metaphAdd(e, "L")}})
  ELSE
    Ret(e, FALSE)

\* metaphone3.go:1317-1329  (test)
encodeSilentLInLkLv(e) ==
  IF ((stringAt(e, -2, <<"WALK", "YOLK", "FOLK", "HALF", "TALK", "CALF", "BALK", "CALK">>) \/ (stringAt(e, -2, <<"POLK", "HALV", "SALVE", "CALVE", "SOLDER">>) /\ ~stringAt(e, -2, <<"POLKA", "PALKO", "HALVA", "HALVO", "SALVER", "CALVER">>)) \/ (stringAt(e, -3, <<"CAULK", "CHALK", "BAULK", "FAULK">>) /\ ~stringAt(e, -4, <<"SCHALK">>))) /\ ~stringAt(e, -5, <<"GONSALVES", "GONCALVES">>) /\ ~stringAt(e, -2, <<"BALKAN", "TALKAL">>) /\ ~stringAt(e, -3, <<"PAULK", "CHALF">>))
  THEN
    TRUE
  ELSE
    FALSE

\* metaphone3.go:1331-1340  (rule)
encodeSilentLInOuld(e) ==
  IF (stringAt(e, -3, <<"WOULD", "COULD">>) \/ (stringAt(e, -4, <<"SHOULD">>) /\ ~stringAt(e, -4, <<"SHOULDER">>)))
  THEN
    Ret([metaphAddExactApprox(e, "D", "T") EXCEPT !.idx = @ + 1], TRUE)
  ELSE
    Ret(e, FALSE)

\* metaphone3.go:1344-1361  (rule)
encodeLlAsVowelSpecialCases(e) ==
  IF (stringAt(e, -5, <<"TORTILLA">>) \/ stringAt(e, -8, <<"RATATOUILLE">>) \/ (stringStart(e, <<"GUILL", "VEILL", "GAILL">>) /\ ~(stringAt(e, -3, <<"GUILLOT", "GUILLOR", "GUILLEN">>) \/ stringExact(e, <<"GUILL">>))) \/ stringStart(e, <<"ROBILL", "BROUILL", "GREMILL">>) \/ (stringAtEnd(e, -2, <<"EILLE">>) /\ ~stringAt(e, -5, <<"REVEILLE">>)))
  THEN
    Ret([e EXCEPT !.idx = @ + 1], TRUE)
  ELSE
    Ret(e, FALSE)

\* metaphone3.go:1363-1376  (rule)
encodeLlAsVowel(e) ==
  IF (stringAtEnd(e, -1, <<"ILLO", "ILLA", "ALLE">>) \/ (stringEnd(e, <<"A", "O", "AS", "OS">>) /\ stringAt(e, -1, <<"AL", "IL">>) /\ ~stringAt(e, -1, <<"ALLA">>)) \/ stringStart(e, <<"LLA", "VILLE", "VILLA", "GALLARDO", "VALLADAR", "MAGALLAN", "CAVALLAR", "BALLASTE">>))
  THEN
    Ret([metaphAddAlt(e, "L", ReplacementChar) EXCEPT !.idx = @ + 1], TRUE)
  ELSE
    Ret(e, FALSE)

\* metaphone3.go:1378-1389  (rule)
encodeLlAsVowelCases(e) ==
  IF charNextIs(e, "L")
  THEN
    The({
      IF r1.ret
      THEN
        Ret(r1.e, TRUE)
      ELSE
        The({
          IF r2.ret
          THEN
            Ret(r2.e, TRUE)
          ELSE
            Ret([r2.e EXCEPT !.idx = @ + 1], FALSE)
          : r2 \in {encodeLlAsVowel(r1.e)}})
      : r1 \in {encodeLlAsVowelSpecialCases(e)}})
  ELSE
    Ret(e, FALSE)

\* offset := e.idx - idx, the first statement of encodeVowelLeTransposition
leTranspositionOffset(e, idx) == e.idx - idx

\* offset := idx - e.idx, the first statement of encodeVowelPreserveVowelAfterL
preserveVowelOffset(e, idx) == idx - e.idx

\* metaphone3.go:1391-1425  (rule)
encodeVowelLeTransposition(e, idx) ==
  LET offset == leTranspositionOffset(e, idx) IN
  LET c1 == And3(And3(And3(And3(And3(And3(And3(And3(And3(And3(And3(And3(And3(And3(And3(And3(And3(B3((e.EncodeVowels /\ (idx > 1) /\ ~isVowelAt(e, offset - 1))), charAt3(e, offset + 1, "E")), Not3(charAt3(e, offset - 1, "L"))), Not3(charAt3(e, offset - 1, "R"))), B3(~isVowelAt(e, offset + 2))), B3(~stringStart(e, <<"MCCLE", "MCLEL", "EMBLEM", "KADLEC", "ECCLESI", "COMPLEC", "COMPLEJ", "ROBLEDO">>))), B3(~(((idx + 2) = e.lastIdx) /\ stringAt(e, offset, <<"LET">>)))), B3(~stringAt(e, offset, <<"LEG", "LER", "LEX", "LESS", "LESQ", "LECT", "LEDG", "LETE", "LETH", "LETS", "LETT", "LETUS", "LETIV", "LETELY", "LETTER", "LETION", "LETIAN", "LETING", "LETORY", "LETTING">>))), B3(~(stringAt(e, offset, <<"LEMENT">>) /\ ~(stringAt(e, -5, <<"BATTLE", "TANGLE", "PUZZLE", "RABBLE", "BABBLE">>) \/ stringAt(e, -4, <<"TABLE">>))))), B3(~(((idx + 2) = e.lastIdx) /\ stringAt(e, offset - 2, <<"OCLES", "ACLES", "AKLES">>)))), B3(~stringAt(e, offset - 3, <<"LISLE", "AISLE">>))), B3(~stringStart(e, <<"ISLE">>))), B3(~stringStart(e, <<"ROBLES">>))), B3(~stringAt(e, offset - 4, <<"PROBLEM", "RESPLEN">>))), B3(~stringAt(e, offset - 3, <<"REPLEN">>))), B3(~stringAt(e, offset - 2, <<"SPLE">>))), Not3(charAt3(e, offset - 1, "H"))), Not3(charAt3(e, offset - 1, "W"))) IN
  IF c1 = Panic3 THEN Ret(Panic(e), TRUE)
  ELSE IF c1 = True3
  THEN
    The({
      The({
        Ret(e6, TRUE)
        : e6 \in {
          LET c3 == charAt3(e5, offset + 2, "L") IN
          IF c3 = Panic3 THEN Ret(Panic(e5), TRUE)
          ELSE IF c3 = True3
          THEN
            [e5 EXCEPT !.idx = idx + 2]
          ELSE
            e5}})
      : e5 \in {[metaphAddStr(e, "AL", "AL") EXCEPT !.flagAlInversion = TRUE]}})
  ELSE
    Ret(e, FALSE)

\* metaphone3.go:1427-1441  (rule)
encodeVowelPreserveVowelAfterL(e, idx) ==
  LET offset == preserveVowelOffset(e, idx) IN
  LET c1 == And3(And3(And3(And3(And3(B3((e.EncodeVowels /\ ~isVowelAt(e, offset - 1))), charAt3(e, offset + 1, "E")), B3(idx > 1)), B3((idx + 1) # e.lastIdx)), B3(~(stringAt(e, offset + 1, <<"ES", "ED">>) /\ ((idx + 2) = e.lastIdx)))), B3(~stringAt(e, offset - 1, <<"RLEST">>))) IN
  IF c1 = Panic3 THEN Ret(Panic(e), TRUE)
  ELSE IF c1 = True3
  THEN
    The({
      Ret(idxSkipVowels(e1, e1.idx + 1), TRUE)
      : e1 \in {metaphAddStr(e, "LA", "LA")}})
  ELSE
    Ret(e, FALSE)

\* metaphone3.go:1443-1452  (rule)
encodeLeCases(e, idx) ==
  The({
    IF r1.ret
    THEN
      r1.e
    ELSE
      The({
        IF r2.ret
        THEN
          r2.e
        ELSE
          metaphAdd(r2.e, "L")
        : r2 \in {encodeVowelPreserveVowelAfterL(r1.e, idx)}})
    : r1 \in {encodeVowelLeTransposition(e, idx)}})

\* metaphone3.go:1216-1234  (rule)
encodeL(e) ==
  LET saveIdx == e.idx IN
  The({
    IF r8.ret
    THEN
      r8.e
    ELSE
      The({
        IF r9.ret
        THEN
          r9.e
        ELSE
          The({
            IF r10.ret
            THEN
              r10.e
            ELSE
              IF encodeFrenchEuil(r10.e)
              THEN
                r10.e
              ELSE
                The({
                  IF r11.ret
                  THEN
                    r11.e
                  ELSE
                    The({
                      IF r12.ret
                      THEN
                        r12.e
                      ELSE
                        IF encodeSilentLInLkLv(r12.e)
                        THEN
                          r12.e
                        ELSE
                          The({
                            IF r13.ret
                            THEN
                              r13.e
                            ELSE
                              The({
                                IF r14.ret
                                THEN
                                  r14.e
                                ELSE
                                  encodeLeCases(r14.e, saveIdx)
                                : r14 \in {encodeLlAsVowelCases(r13.e)}})
                            : r13 \in {encodeSilentLInOuld(r12.e)}})
                      : r12 \in {encodeSilentLInLm(r11.e)}})
                  : r11 \in {encodeFrenchOulx(r10.e)}})
            : r10 \in {encodeFrenchAult(r9.e)}})
        : r9 \in {encodeColonel(r8.e)}})
    : r8 \in {encodeLelyToL(interpolateVowelWhenConsLAtEnd(e))}})

\* metaphone3.go:1467-1469  (test)
encodeSilentMAtBeginning(e) ==
  stringAtStart(e, 0, <<"MN">>)

\* metaphone3.go:1471-1491  (rule)
encodeMrAndMrs(e) ==
  IF stringExact(e, <<"MR">>)
  THEN
    The({
      Ret([e1 EXCEPT !.idx = @ + 1], TRUE)
      : e1 \in {
        IF e.EncodeVowels
        THEN
          metaphAddStr(e, "MASTAR", "MASTAR")
        ELSE
          metaphAddStr(e, "MSTR", "MSTR")}})
  ELSE
    IF stringExact(e, <<"MRS">>)
    THEN
      The({
        Ret([e5 EXCEPT !.idx = @ + 2], TRUE)
        : e5 \in {
          IF e.EncodeVowels
          THEN
            metaphAddStr(e, "MASAS", "MASAS")
          ELSE
            metaphAddStr(e, "MSS", "MSS")}})
    ELSE
      Ret(e, FALSE)

\* metaphone3.go:1493-1518  (rule)
encodeMac(e) ==
  IF stringAtStart(e, 0, <<"MC", "MACIVER", "MACEWEN", "MACELROY", "MACILROY", "MACINTOSH">>)
  THEN
    The({
      The({
        Ret(e4, TRUE)
        : e4 \in {
          IF stringStart(e1, <<"MC">>)
          THEN
            IF (stringAt(e1, 2, <<"K", "G", "Q">>) /\ ~stringAt(e1, 2, <<"GEOR">>))
            THEN
              [e1 EXCEPT !.idx = @ + 2]
            ELSE
              [e1 EXCEPT !.idx = @ + 1]
          ELSE
            [e1 EXCEPT !.idx = @ + 2]}})
      : e1 \in {
        IF e.EncodeVowels
        THEN
          metaphAddStr(e, "MAK", "MAK")
        ELSE
          metaphAddStr(e, "MK", "MK")}})
  ELSE
    Ret(e, FALSE)

\* metaphone3.go:1520-1528  (rule)
encodeMpt(e) ==
  IF (stringAt(e, -2, <<"COMPTROL">>) \/ stringAt(e, -4, <<"ACCOMPT">>))
  THEN
    Ret([metaphAdd(e, "N") EXCEPT !.idx = @ + 1], TRUE)
  ELSE
    Ret(e, FALSE)

\* metaphone3.go:1530-1534  (test)
testSilentMb1(e) ==
  (stringAtStart(e, -3, <<"THUMB">>) \/ stringAtStart(e, -2, <<"DUMB", "BOMB", "DAMN", "LAMB", "NUMB", "TOMB">>))

\* metaphone3.go:1536-1540  (test)
testPronouncedMb(e) ==
  (stringAt(e, -2, <<"NUMBER">>) \/ (stringAt(e, 2, <<"A", "O">>) /\ ~stringAt(e, -2, <<"DUMBASS">>)) \/ stringAt(e, -2, <<"LAMBEN", "LAMBER", "LAMBET", "TOMBIG", "LAMBRE">>))

\* metaphone3.go:1542-1557  (test)
testSilentMb2(e) ==
  (charNextIs(e, "B") /\ (e.idx > 1) /\ (((e.idx + 1) = e.lastIdx) \/ stringAt(e, 2, <<"ING", "ABL", "LIKE">>) \/ stringAtEnd(e, 2, <<"S">>) \/ stringAt(e, -5, <<"BUNCOMB">>) \/ (stringAtEnd(e, 2, <<"ED", "ER">>) /\ (stringStart(e, <<"CLIMB", "PLUMB">>) \/ ~stringAt(e, -1, <<"IMBER", "AMBER", "EMBER", "UMBER">>)) /\ ~stringAt(e, -2, <<"CUMBER", "SOMBER">>))))

\* metaphone3.go:1559-1562  (test)
testPronouncedMb2(e) ==
  (stringAt(e, -1, <<"OMBAS", "OMBAD", "UMBRA">>) \/ stringAt(e, -3, <<"FLAM">>))

\* metaphone3.go:1564-1570  (test)
testMn(e) ==
  (charNextIs(e, "N") /\ (((e.idx + 1) = e.lastIdx) \/ stringAtEnd(e, 2, <<"S", "LY", "ER", "ED", "ING", "EST">>) \/ stringAt(e, -2, <<"DAMNEDEST">>) \/ stringAt(e, -5, <<"GODDAMNIT">>)))

\* metaphone3.go:1572-1584  (rule)
encodeMb(e) ==
  IF testSilentMb1(e)
  THEN
    IF ~testPronouncedMb(e)
    THEN
      [e EXCEPT !.idx = @ + 1]
    ELSE
      e
  ELSE
    IF testSilentMb2(e)
    THEN
      IF ~testPronouncedMb2(e)
      THEN
        [e EXCEPT !.idx = @ + 1]
      ELSE
        e
    ELSE
      IF (testMn(e) \/ charNextIs(e, "M"))
      THEN
        [e EXCEPT !.idx = @ + 1]
      ELSE
        e

\* metaphone3.go:1454-1465  (rule)
encodeM(e) ==
  IF encodeSilentMAtBeginning(e)
  THEN
    e
  ELSE
    The({
      IF r1.ret
      THEN
        r1.e
      ELSE
        The({
          IF r2.ret
          THEN
            r2.e
          ELSE
            The({
              IF r3.ret
              THEN
                r3.e
              ELSE
                metaphAdd(encodeMb(r3.e), "M")
              : r3 \in {encodeMpt(r2.e)}})
          : r2 \in {encodeMac(r1.e)}})
      : r1 \in {encodeMrAndMrs(e)}})

\* metaphone3.go:1604-1615  (rule)
encodeNce(e) ==
  IF (stringAt(e, 1, <<"C", "S">>) /\ stringAt(e, 2, <<"E", "Y", "I">>) /\ (((e.idx + 2) = e.lastIdx) \/ (((e.idx + 3) = e.lastIdx) /\ charAt(e, 3, "S"))))
  THEN
    Ret([metaphAddStr(e, "NTS", "NTS") EXCEPT !.idx = @ + 1], TRUE)
  ELSE
    Ret(e, FALSE)

\* metaphone3.go:1586-1600  (rule)
encodeN(e) ==
  The({
    IF r1.ret
    THEN
      r1.e
    ELSE
      The({
        IF (~stringAt(e1, -3, <<"MONSIEUR">>) /\ ~stringAt(e1, -3, <<"NENESS">>))
        THEN
          metaphAdd(e1, "N")
        ELSE
          e1
        : e1 \in {
          IF charNextIs(r1.e, "N")
          THEN
            [r1.e EXCEPT !.idx = @ + 1]
          ELSE
            r1.e}})
    : r1 \in {encodeNce(e)}})

\* metaphone3.go:1629-1631  (test)
encodeSilentPAtBeginning(e) ==
  stringAtStart(e, 0, <<"PN", "PF", "PS", "PT">>)

\* metaphone3.go:1633-1644  (rule)
encodePt(e) ==
  IF (charNextIs(e, "T") /\ (stringAtStart(e, 0, <<"PTERO">>) \/ stringAt(e, -5, <<"RECEIPT">>) \/ stringAt(e, -4, <<"ASYMPTOT">>)))
  THEN
    Ret([metaphAdd(e, "T") EXCEPT !.idx = @ + 1], TRUE)
  ELSE
    Ret(e, FALSE)

\* metaphone3.go:1649-1672  (rule)
encodePh(e) ==
  IF charNextIs(e, "H")
  THEN
    The({
      Ret(e1, TRUE)
      : e1 \in {
        IF (stringAt(e, 0, <<"PHTHALEIN">>) \/ stringAtStart(e, 0, <<"PHTH">>) \/ stringAt(e, -3, <<"APOPHTHEGM">>))
        THEN
          [metaphAdd(e, "0") EXCEPT !.idx = @ + 3]
        ELSE
          IF ((e.idx > 0) /\ (stringAt(e, 2, <<"AM", "EAD", "OLE", "ELD", "ILL", "OLD", "EAP", "ERD", "ARD", "ANG", "ORN", "EAV", "ART", "OUSE", "AMMER", "AZARD", "UGGER", "OLSTER">>) /\ ~stringAt(e, -1, <<"LPHAM">>)) /\ ~stringAt(e, -3, <<"LYMPH", "NYMPH">>))
          THEN
            advanceCounter(metaphAdd(e, "P"), 2, 1)
          ELSE
            [metaphAdd(e, "F") EXCEPT !.idx = @ + 1]}})
  ELSE
    Ret(e, FALSE)

\* metaphone3.go:1674-1682  (rule)
encodePph(e) ==
  IF (charNextIs(e, "P") /\ ((e.idx + 2) < Len(e.in)) /\ charAt(e, 2, "H"))
  THEN
    Ret([metaphAdd(e, "F") EXCEPT !.idx = @ + 2], TRUE)
  ELSE
    Ret(e, FALSE)

\* metaphone3.go:1684-1691  (rule)
encodeRps(e) ==
  IF (stringAt(e, -3, <<"CORPS">>) /\ ~stringAt(e, -3, <<"CORPSE">>))
  THEN
    Ret([e EXCEPT !.idx = @ + 1], TRUE)
  ELSE
    Ret(e, FALSE)

\* metaphone3.go:1693-1696  (test)
encodeCoup(e) ==
  (stringAtEnd(e, -3, <<"COUP">>) /\ ~stringAt(e, -5, <<"RECOUP">>))

\* metaphone3.go:1698-1706  (rule)
encodePneum(e) ==
  IF stringAt(e, 1, <<"NEUM">>)
  THEN
    Ret([metaphAdd(e, "N") EXCEPT !.idx = @ + 1], TRUE)
  ELSE
    Ret(e, FALSE)

\* metaphone3.go:1708-1720  (rule)
encodePsych(e) ==
  IF stringAt(e, 1, <<"SYCH">>)
  THEN
    The({
      Ret([e1 EXCEPT !.idx = @ + 4], TRUE)
      : e1 \in {
        IF e.EncodeVowels
        THEN
          metaphAddStr(e, "SAK", "SAK")
        ELSE
          metaphAddStr(e, "SK", "SK")}})
  ELSE
    Ret(e, FALSE)

\* metaphone3.go:1722-1733  (rule)
encodePsalm(e) ==
  IF stringAt(e, 1, <<"SALM">>)
  THEN
    The({
      Ret([e1 EXCEPT !.idx = @ + 4], TRUE)
      : e1 \in {
        IF e.EncodeVowels
        THEN
          metaphAddStr(e, "SAM", "SAM")
        ELSE
          metaphAddStr(e, "SM", "SM")}})
  ELSE
    Ret(e, FALSE)

\* metaphone3.go:1735-1741  (rule)
encodePb(e) ==
  IF stringAt(e, 1, <<"P", "B">>)
  THEN
    [e EXCEPT !.idx = @ + 1]
  ELSE
    e

\* metaphone3.go:1617-1627  (rule)
encodeP(e) ==
  IF encodeSilentPAtBeginning(e)
  THEN
    e
  ELSE
    The({
      IF r1.ret
      THEN
        r1.e
      ELSE
        The({
          IF r2.ret
          THEN
            r2.e
          ELSE
            The({
              IF r3.ret
              THEN
                r3.e
              ELSE
                The({
                  IF r4.ret
                  THEN
                    r4.e
                  ELSE
                    IF encodeCoup(r4.e)
                    THEN
                      r4.e
                    ELSE
                      The({
                        IF r5.ret
                        THEN
                          r5.e
                        ELSE
                          The({
                            IF r6.ret
                            THEN
                              r6.e
                            ELSE
                              The({
                                IF r7.ret
                                THEN
                                  r7.e
                                ELSE
                                  metaphAdd(encodePb(r7.e), "P")
                                : r7 \in {encodePsalm(r6.e)}})
                            : r6 \in {encodePsych(r5.e)}})
                        : r5 \in {encodePneum(r4.e)}})
                  : r4 \in {encodeRps(r3.e)}})
              : r3 \in {encodePph(r2.e)}})
          : r2 \in {encodePh(r1.e)}})
      : r1 \in {encodePt(e)}})

\* metaphone3.go:1743-1755  (rule)
encodeQ(e) ==
  IF stringAt(e, 0, <<"QIN">>)
  THEN
    metaphAdd(e, "X")
  ELSE
    The({
      metaphAdd(e2, "K")
      : e2 \in {
        IF charNextIs(e, "Q")
        THEN
          [e EXCEPT !.idx = @ + 1]
        ELSE
          e}})

\* metaphone3.go:1773-1815  (rule)
encodeRz(e) ==
  IF (stringAt(e, -2, <<"GARZ", "KURZ", "MARZ", "MERZ", "HERZ", "PERZ", "WARZ">>) \/ stringAt(e, 0, <<"RZANO", "RZOLA">>) \/ stringAt(e, -1, <<"ARZA", "ARZN">>))
  THEN
    Ret(e, FALSE)
  ELSE
    IF stringAt(e, -4, <<"YASTRZEMSKI">>)
    THEN
      Ret([metaphAddAlt(e, "R", "X") EXCEPT !.idx = @ + 1], TRUE)
    ELSE
      IF stringAt(e, -1, <<"BRZEZINSKI">>)
      THEN
        Ret([metaphAddStr(e, "RS", "RJ") EXCEPT !.idx = @ + 3], TRUE)
      ELSE
        IF (stringAt(e, -1, <<"TRZ", "PRZ", "KRZ">>) \/ (stringAt(e, 0, <<"RZ">>) /\ (isVowelAt(e, -1) \/ (e.idx = 0))))
        THEN
          Ret([metaphAddStr(e, "RS", "X") EXCEPT !.idx = @ + 1], TRUE)
        ELSE
          IF stringAt(e, -1, <<"BRZ", "DRZ", "GRZ">>)
          THEN
            Ret([metaphAddStr(e, "RS", "J") EXCEPT !.idx = @ + 1], TRUE)
          ELSE
            Ret(e, FALSE)

\* metaphone3.go:1817-1841  (test)
testSilentR(e) ==
  IF (((e.idx = e.lastIdx) /\ stringAt(e, -2, <<"IER">>) /\ (stringAt(e, -5, <<"MET", "VIV", "LUC">>) \/ stringAt(e, -6, <<"CART", "DOSS", "FOUR", "OLIV", "BUST", "DAUM", "ATEL", "SONN", "CORM", "MERC", "PELT", "POIR", "BERN", "FORT", "GREN", "SAUC", "GAGN", "GAUT", "GRAN", "FORC", "MESS", "LUSS", "MEUN", "POTH", "HOLL", "CHEN">>) \/ stringAt(e, -7, <<"CROUP", "TORCH", "CLOUT", "FOURN", "GAUTH", "TROTT", "DEROS", "CHART">>) \/ stringAt(e, -8, <<"CHEVAL", "LAVOIS", "PELLET", "SOMMEL", "TREPAN", "LETELL", "COLOMB">>) \/ stringAt(e, -9, <<"CHARCUT">>) \/ stringAt(e, -10, <<"CHARPENT">>))) \/ stringAt(e, -2, <<"SURBURB", "WORSTED", "WORCESTER">>) \/ stringAt(e, -7, <<"MONSIEUR">>) \/ stringAt(e, -6, <<"POITIERS">>))
  THEN
    TRUE
  ELSE
    FALSE

\* metaphone3.go:1844-1859  (rule)
encodeVowelReTransposition(e) ==
  IF (e.EncodeVowels /\ charNextIs(e, "E") /\ (Len(e.in) > 3) /\ ~stringStart(e, <<"OUTRE", "LIBRE", "ANDRE">>) /\ ~stringExact(e, <<"FRED", "TRES">>) /\ ~stringAt(e, -2, <<"LDRED", "LFRED", "NDRED", "NFRED", "NDRES", "TRES", "IFRED">>) /\ ~isVowelAt(e, -1) /\ (((e.idx + 1) = e.lastIdx) \/ stringAtEnd(e, 2, <<"D", "S">>)))
  THEN
    Ret(metaphAddStr(e, "AR", "AR"), TRUE)
  ELSE
    Ret(e, FALSE)

\* metaphone3.go:1757-1770  (rule)
encodeR(e) ==
  The({
    IF r1.ret
    THEN
      r1.e
    ELSE
      The({
        IF (charNextIs(e1, "R") \/ stringAt(e1, -6, <<"POITIERS">>))
        THEN
          [e1 EXCEPT !.idx = @ + 1]
        ELSE
          e1
        : e1 \in {
          IF ~testSilentR(r1.e)
          THEN
            The({
              IF r2.ret
              THEN
                r2.e
              ELSE
                metaphAdd(r2.e, "R")
              : r2 \in {encodeVowelReTransposition(r1.e)}})
          ELSE
            r1.e}})
    : r1 \in {encodeRz(e)}})

\* metaphone3.go:1879-1886  (rule)
encodeSkj(e) ==
  IF (stringAt(e, 0, <<"SKJO", "SKJU">>) /\ isVowelAt(e, 3))
  THEN
    Ret([metaphAdd(e, "X") EXCEPT !.idx = @ + 2], TRUE)
  ELSE
    Ret(e, FALSE)

\* metaphone3.go:1905-1908  (test)
namesBeginningWithSwThatGetAltSv(e) ==
  stringStart(e, <<"SWANSON", "SWENSON", "SWINSON", "SWENSEN", "SWOBODA", "SWIDERSKI", "SWARTHOUT", "SWEARENGIN">>)

\* metaphone3.go:1910-1914  (test)
namesBeginningWithSwThatGetAlvXV(e) ==
  stringStart(e, <<"SWART", "SWARTZ", "SWARTS", "SWIGER", "SWITZER", "SWANGER", "SWIGERT", "SWIGART", "SWIHART", "SWEITZER", "SWATZELL", "SWINDLER", "SWINEHART", "SWEARINGEN">>)

\* metaphone3.go:1888-1903  (rule)
encodeSpecialSw(e) ==
  IF e.idx = 0
  THEN
    IF namesBeginningWithSwThatGetAltSv(e)
    THEN
      Ret([metaphAddStr(e, "S", "SV") EXCEPT !.idx = @ + 1], TRUE)
    ELSE
      IF namesBeginningWithSwThatGetAlvXV(e)
      THEN
        Ret([metaphAddStr(e, "S", "XV") EXCEPT !.idx = @ + 1], TRUE)
      ELSE
        Ret(e, FALSE)
  ELSE
    Ret(e, FALSE)

\* metaphone3.go:1916-1923  (rule)
encodeSj(e) ==
  IF stringStart(e, <<"SJ">>)
  THEN
    Ret([metaphAdd(e, "X") EXCEPT !.idx = @ + 1], TRUE)
  ELSE
    Ret(e, FALSE)

\* metaphone3.go:1925-1945  (rule)
encodeSilentFrenchSFinal(e) ==
  IF stringExact(e, <<"LOUIS">>)
  THEN
    Ret(metaphAddAlt(e, "S", ReplacementChar), TRUE)
  ELSE
    IF ((e.idx = e.lastIdx) /\ ((stringStart(e, <<"YVES", "ARKANSAS", "FRANCAIS", "CRUDITES", "BRUYERES", "DESCARTES", "DESCHUTES", "DESCHAMPS", "DESROCHES", "DESCHENES", "RENDEZVOUS", "CONTRETEMPS", "DESLAURIERS">>) \/ stringExact(e, <<"HORS">>) \/ stringEnd(e, <<"CAMUS", "YPRES", "MESNES", "DEBRIS", "BLANCS", "INGRES", "CANNES", "CHABLIS", "APROPOS", "JACQUES", "ELYSEES", "OEUVRES", "GEORGES", "DESPRES">>)) \/ (stringAt(e, -2, <<"AI", "OI", "UI">>) /\ ~stringStart(e, <<"LOIS", "LUIS">>))))
    THEN
      Ret(e, TRUE)
    ELSE
      Ret(e, FALSE)

\* metaphone3.go:1947-1955  (test)
encodeSilentFrenchSInternal(e) ==
  (stringAt(e, -2, <<"MESNES", "DESCHAM", "DESPRES", "DESROCH", "DESROSI", "DESJARD", "DESMARA", "DESCHEN", "DESHOTE", "DESLAUR", "DESCARTES">>) \/ stringAt(e, -5, <<"DUQUESNE", "DUCHESNE">>) \/ stringAt(e, -3, <<"FRESNEL", "GROSVENOR">>) \/ stringAt(e, -4, <<"LOUISVILLE">>) \/ stringAt(e, -7, <<"BEAUCHESNE", "ILLINOISAN">>))

\* metaphone3.go:1957-1962  (test)
encodeIsl(e) ==
  ((stringAt(e, -2, <<"LISL", "LYSL", "AISL">>) /\ ~stringAt(e, -3, <<"PAISLEY", "BAISLEY", "ALISLAM", "ALISLAH", "ALISLAA">>)) \/ ((e.idx = 1) /\ (stringAt(e, -1, <<"ISLE", "ISLAN">>) /\ ~stringAt(e, -1, <<"ISLEY", "ISLER">>))))

\* metaphone3.go:1964-1993  (rule)
encodeStl(e) ==
  IF ((stringAt(e, 0, <<"STLE", "STLI">>) /\ ~stringAt(e, 2, <<"LESS", "LIKE", "LINE">>)) \/ stringAt(e, -3, <<"THISTLY", "BRISTLY", "GRISTLY">>) \/ stringAt(e, -1, <<"USCLE">>))
  THEN
    The({
      Ret(e1, TRUE)
      : e1 \in {
        IF (stringStart(e, <<"KRISTEN", "KRYSTLE", "CRYSTLE", "KRISTLE", "CHRISTENSEN", "CHRISTENSON">>) \/ stringAt(e, -3, <<"FIRSTLING">>) \/ stringAt(e, -2, <<"NESTLING", "WESTLING">>))
        THEN
          [metaphAddStr(e, "ST", "ST") EXCEPT !.idx = @ + 1]
        ELSE
          The({
            [e5 EXCEPT !.idx = @ + 2]
            : e5 \in {
              IF (e.EncodeVowels /\ charAt(e, 3, "E") /\ ~charAt(e, 4, "R") /\ ~stringAt(e, 3, <<"EY", "ETTE", "ETTA">>))
              THEN
                [metaphAddStr(e, "SAL", "SAL") EXCEPT !.flagAlInversion = TRUE]
              ELSE
                metaphAddStr(e, "SL", "SL")}})}})
  ELSE
    Ret(e, FALSE)

\* metaphone3.go:1995-2002  (rule)
encodeChristmas(e) ==
  IF stringAt(e, -4, <<"CHRISTMA">>)
  THEN
    Ret([metaphAddStr(e, "SM", "SM") EXCEPT !.idx = @ + 2], TRUE)
  ELSE
    Ret(e, FALSE)

\* metaphone3.go:2004-2012  (rule)
encodeSthm(e) ==
  IF stringAt(e, 0, <<"STHM">>)
  THEN
    Ret([metaphAddStr(e, "SM", "SM") EXCEPT !.idx = @ + 3], TRUE)
  ELSE
    Ret(e, FALSE)

\* metaphone3.go:2014-2034  (rule)
encodeIsten(e) ==
  IF stringStart(e, <<"CHRISTEN">>)
  THEN
    The({
      Ret([e1 EXCEPT !.idx = @ + 1], TRUE)
      : e1 \in {
        IF (rootOrInflections(e.in, "CHRISTEN") \/ stringStart(e, <<"CHRISTENDOM">>))
        THEN
          metaphAddStr(e, "S", "ST")
        ELSE
          metaphAddStr(e, "ST", "ST")}})
  ELSE
    IF (stringAt(e, -2, <<"LISTEN", "RISTEN", "HASTEN", "FASTEN", "MUSTNT">>) \/ stringAt(e, -3, <<"MOISTEN">>))
    THEN
      Ret([metaphAdd(e, "S") EXCEPT !.idx = @ + 1], TRUE)
    ELSE
      Ret(e, FALSE)

\* metaphone3.go:2036-2042  (rule)
encodeSugar(e) ==
  IF stringAt(e, 0, <<"SUGAR">>)
  THEN
    Ret(metaphAdd(e, "X"), TRUE)
  ELSE
    Ret(e, FALSE)

\* metaphone3.go:2044-2081  (rule)
encodeSh(e) ==
  IF stringAt(e, 0, <<"SH">>)
  THEN
    IF stringAt(e, -2, <<"CASHMERE">>)
    THEN
      Ret([metaphAdd(e, "J") EXCEPT !.idx = @ + 1], TRUE)
    ELSE
      The({
        Ret([e4 EXCEPT !.idx = @ + 1], TRUE)
        : e4 \in {
          IF ((e.idx > 0) /\ (stringAtEnd(e, 1, <<"HAP">>) \/ stringAt(e, 1, <<"HEIM", "HOEK", "HOLM", "HOLZ", "HOOD", "HEAD", "HEID", "HAAR", "HORS", "HOLE", "HUND", "HELM", "HAWK", "HILL", "HEART", "HATCH", "HOUSE", "HOUND", "HONOR">>) \/ stringAtEnd(e, 2, <<"EAR">>) \/ (stringAt(e, 2, <<"ORN">>) /\ ~stringAt(e, -2, <<"UNSHORN">>)) \/ (stringAt(e, 1, <<"HOUR">>) /\ ~stringStart(e, <<"ASHOUR", "BASHOUR", "MANSHOUR">>)) \/ stringAt(e, 2, <<"ARMON", "ONEST", "ALLOW", "OLDER", "OPPER", "EIMER", "ANDLE", "ONOUR", "ABILLE", "UMANCE", "ABITUA">>)))
          THEN
            IF ~stringAt(e, -1, <<"S">>)
            THEN
              metaphAdd(e, "S")
            ELSE
              e
          ELSE
            metaphAdd(e, "X")}})
  ELSE
    Ret(e, FALSE)

\* metaphone3.go:2083-2125  (rule)
encodeSch(e) ==
  IF stringAt(e, 1, <<"CH">>)
  THEN
    IF ((e.idx > 0) /\ (stringAt(e, 3, <<"IEF", "EAT", "ANCE", "ARGE">>) \/ stringStart(e, <<"ESCHEW">>)))
    THEN
      Ret(metaphAdd(e, "S"), TRUE)
    ELSE
      IF ((stringAt(e, 3, <<"OO", "ER", "EN", "UY", "ED", "EM", "IA", "IZ", "IS", "OL">>) /\ ~stringAt(e, 0, <<"SCHOLT", "SCHISL", "SCHERR">>)) \/ stringAt(e, 3, <<"ISZ">>) \/ (stringAt(e, -1, <<"ESCHAT", "ASCHIN", "ASCHAL", "ISCHAE", "ISCHIA">>) /\ ~stringAt(e, -2, <<"FASCHING">>)) \/ stringAtEnd(e, -1, <<"ESCHI">>) \/ charAt(e, 3, "Y"))
      THEN
        The({
          Ret([e2 EXCEPT !.idx = @ + 2], TRUE)
          : e2 \in {
            IF (stringAt(e, 3, <<"ER", "EN", "IS">>) /\ (((e.idx + 4) = e.lastIdx) \/ stringAt(e, 3, <<"ENK", "ENB", "IST">>)))
            THEN
              metaphAddStr(e, "X", "SK")
            ELSE
              metaphAddStr(e, "SK", "SK")}})
      ELSE
        Ret([metaphAdd(e, "X") EXCEPT !.idx = @ + 2], TRUE)
  ELSE
    Ret(e, FALSE)

\* metaphone3.go:2127-2141  (rule)
encodeSur(e) ==
  IF stringAt(e, 1, <<"URE", "URA", "URY">>)
  THEN
    The({
      Ret(advanceCounter(e1, 1, 0), TRUE)
      : e1 \in {
        IF ((e.idx = 0) \/ stringAt(e, -1, <<"N", "K">>) \/ stringAt(e, -2, <<"NO">>))
        THEN
          metaphAdd(e, "X")
        ELSE
          metaphAdd(e, "J")}})
  ELSE
    Ret(e, FALSE)

\* metaphone3.go:2143-2160  (rule)
encodeSu(e) ==
  IF (stringAt(e, 1, <<"UO", "UA">>) /\ (e.idx # 0))
  THEN
    The({
      Ret(advanceCounter(e1, 2, 0), TRUE)
      : e1 \in {
        IF stringAt(e, -1, <<"RSUA">>)
        THEN
          metaphAdd(e, "S")
        ELSE
          IF isVowelAt(e, -1)
          THEN
            metaphAddAlt(e, "J", "S")
          ELSE
            metaphAddAlt(e, "X", "S")}})
  ELSE
    Ret(e, FALSE)

\* metaphone3.go:2162-2176  (rule)
encodeSsio(e) ==
  IF stringAt(e, 1, <<"SION">>)
  THEN
    The({
      Ret(advanceCounter(e1, 3, 1), TRUE)
      : e1 \in {
        IF stringAt(e, -2, <<"CI">>)
        THEN
          metaphAdd(e, "J")
        ELSE
          IF isVowelAt(e, -1)
          THEN
            metaphAdd(e, "X")
          ELSE
            e}})
  ELSE
    Ret(e, FALSE)

\* metaphone3.go:2178-2187  (rule)
encodeSs(e) ==
  IF stringAt(e, -1, <<"USSIA", "ESSUR", "ISSUR", "ISSUE", "ESSIAN", "ASSURE", "ASSURA", "ISSUAB", "ISSUAN", "ASSIUS">>)
  THEN
    Ret(advanceCounter(metaphAdd(e, "X"), 2, 1), TRUE)
  ELSE
    Ret(e, FALSE)

\* metaphone3.go:2189-2224  (rule)
encodeSia(e) ==
  IF (stringAt(e, -2, <<"CHSIA">>) \/ stringAt(e, -1, <<"RSIAL">>))
  THEN
    Ret(advanceCounter(metaphAdd(e, "X"), 2, 0), TRUE)
  ELSE
    IF ((stringAtStart(e, -3, <<"ALESIA", "ALYSIA", "ALISIA", "STASIA">>) /\ ~stringStart(e, <<"ANASTASIA">>)) \/ stringAt(e, -5, <<"THERESIA", "DIONYSIAN">>))
    THEN
      Ret(advanceCounter(metaphAddAlt(e, "X", "S"), 2, 0), TRUE)
    ELSE
      IF (stringAtEnd(e, 0, <<"SIA", "SIAN">>) \/ stringAt(e, -5, <<"AMBROSIAL">>))
      THEN
        The({
          Ret(advanceCounter(e7, 1, 0), TRUE)
          : e7 \in {
            IF ((isVowelAt(e, -1) \/ stringAt(e, -1, <<"R">>)) /\ ~(stringStart(e, <<"JAMES", "NICOS", "PEGAS", "PEPYS", "HOBBES", "HOLMES", "JAQUES", "KEYNES", "MALTHUS", "HOMOOUS", "MAGLEMOS", "HOMOIOUS", "LEVALLOIS", "TARDENOIS">>) \/ stringAt(e, -4, <<"ALGES">>)))
            THEN
              metaphAdd(e, "J")
            ELSE
              metaphAdd(e, "S")}})
      ELSE
        Ret(e, FALSE)

\* metaphone3.go:2226-2245  (rule)
encodeSio(e) ==
  IF stringStart(e, <<"SIOBHAN">>)
  THEN
    Ret(advanceCounter(metaphAdd(e, "X"), 2, 0), TRUE)
  ELSE
    IF stringAt(e, 1, <<"ION">>)
    THEN
      The({
        Ret(advanceCounter(e4, 2, 0), TRUE)
        : e4 \in {
          IF (isVowelAt(e, -1) \/ stringAt(e, -2, <<"ER", "UR">>))
          THEN
            metaphAdd(e, "J")
          ELSE
            metaphAdd(e, "X")}})
    ELSE
      Ret(e, FALSE)

\* metaphone3.go:2247-2264  (rule)
encodeAnglicisations(e) ==
  IF (stringAtStart(e, 0, <<"SM", "SN", "SL">>) \/ stringAt(e, 1, <<"Z">>))
  THEN
    The({
      The({
        Ret(e2, TRUE)
        : e2 \in {
          IF stringAt(e1, 1, <<"Z">>)
          THEN
            [e1 EXCEPT !.idx = @ + 1]
          ELSE
            e1}})
      : e1 \in {metaphAddAlt(e, "S", "X")}})
  ELSE
    Ret(e, FALSE)

\* metaphone3.go:2266-2296  (rule)
encodeSc(e) ==
  IF stringAt(e, 0, <<"SC">>)
  THEN
    IF stringAt(e, -2, <<"VISCOUNT">>)
    THEN
      Ret(e, TRUE)
    ELSE
      IF stringAt(e, 2, <<"I", "E", "Y">>)
      THEN
        The({
          Ret([e1 EXCEPT !.idx = @ + 1], TRUE)
          : e1 \in {
            IF (stringAt(e, 2, <<"IUT", "IOUS">>) \/ stringAt(e, -2, <<"FASCIS">>) \/ stringAt(e, -3, <<"CONSCIEN", "CRESCEND", "CONSCION">>) \/ stringAt(e, -4, <<"OMNISCIEN">>))
            THEN
              metaphAdd(e, "X")
            ELSE
              IF (stringAt(e, 0, <<"SCIVV", "SCIRO", "SCIPIO", "SCEPTIC", "SCEPSIS">>) \/ stringAt(e, -2, <<"PISCITELLI">>))
              THEN
                metaphAddStr(e, "SK", "SK")
              ELSE
                metaphAdd(e, "S")}})
      ELSE
        Ret([metaphAddStr(e, "SK", "SK") EXCEPT !.idx = @ + 1], TRUE)
  ELSE
    Ret(e, FALSE)

\* metaphone3.go:2298-2313  (rule)
encodeSeiSuiSier(e) ==
  IF (stringAtEnd(e, -3, <<"NAUSEA">>) \/ stringAt(e, -2, <<"CASUI">>) \/ (stringAt(e, -1, <<"OSIER", "ASIER">>) /\ ~(stringStart(e, <<"OSIER", "EASIER">>) \/ stringAt(e, -2, <<"ROSIER", "MOSIER">>))))
  THEN
    Ret(advanceCounter(metaphAddAlt(e, "J", "X"), 2, 0), TRUE)
  ELSE
    Ret(e, FALSE)

\* metaphone3.go:2315-2323  (rule)
encodeSea(e) ==
  IF (stringExact(e, <<"SEAN">>) \/ (stringAt(e, -3, <<"NAUSEO">>) /\ ~stringAt(e, -3, <<"NAUSEAT">>)))
  THEN
    Ret(advanceCounter(metaphAdd(e, "X"), 2, 0), TRUE)
  ELSE
    Ret(e, FALSE)

\* metaphone3.go:1862-1877  (rule)
encodeS(e) ==
  The({
    IF r1.ret
    THEN
      r1.e
    ELSE
      The({
        IF r2.ret
        THEN
          r2.e
        ELSE
          The({
            IF r3.ret
            THEN
              r3.e
            ELSE
              The({
                IF r4.ret
                THEN
                  r4.e
                ELSE
                  IF encodeSilentFrenchSInternal(r4.e)
                  THEN
                    r4.e
                  ELSE
                    IF encodeIsl(r4.e)
                    THEN
                      r4.e
                    ELSE
                      The({
                        IF r5.ret
                        THEN
                          r5.e
                        ELSE
                          The({
                            IF r6.ret
                            THEN
                              r6.e
                            ELSE
                              The({
                                IF r7.ret
                                THEN
                                  r7.e
                                ELSE
                                  The({
                                    IF r8.ret
                                    THEN
                                      r8.e
                                    ELSE
                                      The({
                                        IF r9.ret
                                        THEN
                                          r9.e
                                        ELSE
                                          The({
                                            IF r10.ret
                                            THEN
                                              r10.e
                                            ELSE
                                              The({
                                                IF r11.ret
                                                THEN
                                                  r11.e
                                                ELSE
                                                  The({
                                                    IF r12.ret
                                                    THEN
                                                      r12.e
                                                    ELSE
                                                      The({
                                                        IF r13.ret
                                                        THEN
                                                          r13.e
                                                        ELSE
                                                          The({
                                                            IF r14.ret
                                                            THEN
                                                              r14.e
                                                            ELSE
                                                              The({
                                                                IF r15.ret
                                                                THEN
                                                                  r15.e
                                                                ELSE
                                                                  The({
                                                                    IF r16.ret
                                                                    THEN
                                                                      r16.e
                                                                    ELSE
                                                                      The({
                                                                        IF r17.ret
                                                                        THEN
                                                                          r17.e
                                                                        ELSE
                                                                          The({
                                                                            IF r18.ret
                                                                            THEN
                                                                              r18.e
                                                                            ELSE
                                                                              The({
                                                                                IF r19.ret
                                                                                THEN
                                                                                  r19.e
                                                                                ELSE
                                                                                  The({
                                                                                    IF r20.ret
                                                                                    THEN
                                                                                      r20.e
                                                                                    ELSE
                                                                                      The({
                                                                                        IF r21.ret
                                                                                        THEN
                                                                                          r21.e
                                                                                        ELSE
                                                                                          The({
                                                                                            IF (stringAt(e1, 1, <<"S", "Z">>) /\ ~stringAt(e1, 1, <<"SH">>))
                                                                                            THEN
                                                                                              [e1 EXCEPT !.idx = @ + 1]
                                                                                            ELSE
                                                                                              e1
                                                                                            : e1 \in {metaphAdd(r21.e, "S")}})
                                                                                        : r21 \in {encodeSea(r20.e)}})
                                                                                    : r20 \in {encodeSeiSuiSier(r19.e)}})
                                                                                : r19 \in {encodeSc(r18.e)}})
                                                                            : r18 \in {encodeAnglicisations(r17.e)}})
                                                                        : r17 \in {encodeSio(r16.e)}})
                                                                    : r16 \in {encodeSia(r15.e)}})
                                                                : r15 \in {encodeSs(r14.e)}})
                                                            : r14 \in {encodeSsio(r13.e)}})
                                                        : r13 \in {encodeSu(r12.e)}})
                                                    : r12 \in {encodeSur(r11.e)}})
                                                : r11 \in {encodeSch(r10.e)}})
                                            : r10 \in {encodeSh(r9.e)}})
                                        : r9 \in {encodeSugar(r8.e)}})
                                    : r8 \in {encodeIsten(r7.e)}})
                                : r7 \in {encodeSthm(r6.e)}})
                            : r6 \in {encodeChristmas(r5.e)}})
                        : r5 \in {encodeStl(r4.e)}})
                : r4 \in {encodeSilentFrenchSFinal(r3.e)}})
            : r3 \in {encodeSj(r2.e)}})
        : r2 \in {encodeSpecialSw(r1.e)}})
    : r1 \in {encodeSkj(e)}})

\* metaphone3.go:2339-2375  (rule)
encodeTInitial(e) ==
  IF e.idx = 0
  THEN
    IF stringAt(e, 1, <<"SAR", "ZAR">>)
    THEN
      Ret(e, TRUE)
    ELSE
      IF stringExact(e, <<"TSO", "TSA", "TSU", "TSAO", "TSAI", "TSING", "TSANG">>)
      THEN
        Ret(advanceCounter(metaphAdd(e, "X"), 2, 1), TRUE)
      ELSE
        IF (charNextIs(e, "S") /\ isVowelAt(e, 2))
        THEN
          Ret(advanceCounter(metaphAddStr(e, "TS", "S"), 2, 1), TRUE)
        ELSE
          IF charNextIs(e, "J")
          THEN
            Ret(advanceCounter(metaphAdd(e, "X"), 2, 1), TRUE)
          ELSE
            IF (stringExact(e, <<"THU">>) \/ stringAt(e, 1, <<"HAI", "HUY", "HAO", "HYME", "HYMY", "HANH", "HERES">>))
            THEN
              Ret(advanceCounter(metaphAdd(e, "T"), 2, 1), TRUE)
            ELSE
              Ret(e, FALSE)
  ELSE
    Ret(e, FALSE)

\* metaphone3.go:2377-2384  (rule)
encodeTch(e) ==
  IF stringAt(e, 1, <<"CH">>)
  THEN
    Ret([metaphAdd(e, "X") EXCEPT !.idx = @ + 2], TRUE)
  ELSE
    Ret(e, FALSE)

\* metaphone3.go:2386-2397  (test)
encodeSilentFrenchT(e) ==
  ((stringAtEnd(e, -4, <<"MONET", "GENET", "CHAUT">>) \/ stringAt(e, -2, <<"POTPOURRI">>) \/ stringAt(e, -3, <<"MORTGAGE", "BOATSWAIN">>) \/ stringAt(e, -4, <<"BERET", "BIDET", "FILET", "DEBUT", "DEPOT", "PINOT", "TAROT">>) \/ stringAt(e, -5, <<"BALLET", "BUFFET", "CACHET", "CHALET", "ESPRIT", "RAGOUT", "GOULET", "CHABOT", "BENOIT">>) \/ stringAt(e, -6, <<"GOURMET", "BOUQUET", "CROCHET", "CROQUET", "PARFAIT", "PINCHOT", "CABARET", "PARQUET", "RAPPORT", "TOUCHET", "COURBET", "DIDEROT">>) \/ stringAt(e, -7, <<"ENTREPOT", "CABERNET", "DUBONNET", "MASSENET", "MUSCADET", "RICOCHET", "ESCARGOT">>) \/ stringAt(e, -8, <<"SOBRIQUET", "CABRIOLET", "CASSOULET", "OUBRIQUET", "CAMEMBERT">>)) /\ ~stringAt(e, 1, <<"AN", "RY", "IC", "OM", "IN">>))

\* metaphone3.go:2399-2413  (rule)
encodeTunTulTuaTuo(e) ==
  IF (stringAt(e, -3, <<"FORTUN">>) \/ (stringAt(e, 0, <<"TUL">>) /\ isVowelAt(e, -1) /\ isVowelAt(e, 3)) \/ stringAt(e, -2, <<"BITUA", "BITUE">>) \/ ((e.idx > 1) /\ stringAt(e, 0, <<"TUA", "TUO">>)))
  THEN
    Ret(metaphAddAlt(e, "X", "T"), TRUE)
  ELSE
    Ret(e, FALSE)

\* metaphone3.go:2415-2434  (rule)
encodeTueTeuTeouTulTie(e) ==
  IF (stringAt(e, 1, <<"UENT">>) \/ stringAt(e, -4, <<"RIGHTEOUS">>) \/ stringAt(e, -3, <<"STATUTE", "AMATEUR", "STATUTOR">>) \/ stringAt(e, -1, <<"NTULE", "NTULA", "STULE", "STULA", "STEUR">>) \/ stringAtEnd(e, 0, <<"TUE">>) \/ stringAt(e, 0, <<"TUENC">>) \/ stringAtEnd(e, 0, <<"TIENCE">>))
  THEN
    Ret(advanceCounter(metaphAddAlt(e, "X", "T"), 1, 0), TRUE)
  ELSE
    Ret(e, FALSE)

\* metaphone3.go:2436-2453  (rule)
encodeTurTiuSuffixes(e) ==
  IF ((e.idx > 0) /\ stringAt(e, 1, <<"URE", "URA", "URI", "URY", "URO", "IUS">>))
  THEN
    The({
      Ret(advanceCounter(e1, 1, 0), TRUE)
      : e1 \in {
        IF ((stringAtEnd(e, 1, <<"URA", "URO">>) /\ ~stringAt(e, -3, <<"VENTURA">>)) \/ stringAt(e, 1, <<"URIA">>))
        THEN
          metaphAdd(e, "T")
        ELSE
          metaphAddAlt(e, "X", "T")}})
  ELSE
    Ret(e, FALSE)

\* metaphone3.go:2455-2490  (rule)
encodeTi(e) ==
  IF ((stringAt(e, 1, <<"IO">>) /\ ~stringAt(e, -1, <<"ETIOL">>)) \/ stringAt(e, 1, <<"IAL">>) \/ stringAt(e, -1, <<"RTIUM", "ATIUM">>) \/ (((stringAt(e, 1, <<"IAN">>) /\ (e.idx > 0)) /\ ~(stringAt(e, -4, <<"FAUSTIAN">>) \/ stringAt(e, -5, <<"PROUSTIAN">>) \/ stringAt(e, -2, <<"TATIANA">>) \/ stringAt(e, -3, <<"KANTIAN", "GENTIAN">>) \/ stringAt(e, -8, <<"ROOSEVELTIAN">>))) \/ (stringAtEnd(e, 0, <<"TIA">>) /\ ~(stringAt(e, -3, <<"HESTIA", "MASTIA">>) \/ stringAt(e, -2, <<"OSTIA">>) \/ stringStart(e, <<"TIA">>) \/ stringAt(e, -5, <<"IZVESTIA">>))) \/ stringAt(e, 1, <<"IATE", "IATI", "IABL", "IATO", "IARY">>) \/ stringAt(e, -5, <<"CHRISTIAN">>)))
  THEN
    The({
      Ret(advanceCounter(e1, 2, 0), TRUE)
      : e1 \in {
        IF (stringAtStart(e, -2, <<"ANTI">>) \/ stringStart(e, <<"PATIO", "PITIA", "DUTIA">>))
        THEN
          metaphAdd(e, "T")
        ELSE
          IF stringAt(e, -4, <<"EQUATION">>)
          THEN
            metaphAdd(e, "J")
          ELSE
            IF stringAt(e, 0, <<"TION">>)
            THEN
              metaphAdd(e, "X")
            ELSE
              IF stringStart(e, <<"KATIA", "LATIA">>)
              THEN
                metaphAddAlt(e, "T", "X")
              ELSE
                metaphAddAlt(e, "X", "T")}})
  ELSE
    Ret(e, FALSE)

\* metaphone3.go:2492-2500  (rule)
encodeTient(e) ==
  IF stringAt(e, 1, <<"IENT">>)
  THEN
    Ret(advanceCounter(metaphAddAlt(e, "X", "T"), 2, 0), TRUE)
  ELSE
    Ret(e, FALSE)

\* metaphone3.go:2502-2514  (rule)
encodeTsch(e) ==
  IF (stringAt(e, 0, <<"TSCH">>) /\ ~stringAt(e, -3, <<"WELT", "KLAT", "FEST">>))
  THEN
    Ret([metaphAdd(e, "X") EXCEPT !.idx = @ + 3], TRUE)
  ELSE
    Ret(e, FALSE)

\* metaphone3.go:2516-2524  (rule)
encodeTzsch(e) ==
  IF stringAt(e, 0, <<"TZSCH">>)
  THEN
    Ret([metaphAdd(e, "X") EXCEPT !.idx = @ + 4], TRUE)
  ELSE
    Ret(e, FALSE)

\* metaphone3.go:2526-2550  (rule)
encodeThPronouncedSeparately(e) ==
  IF (((e.idx > 0) /\ stringAt(e, 1, <<"HOOD", "HEAD", "HEID", "HAND", "HILL", "HOLD", "HAWK", "HEAP", "HERD", "HOLE", "HOOK", "HUNT", "HUMO", "HAUS", "HOFF", "HARD">>) /\ ~stringAt(e, -3, <<"SOUTH", "NORTH">>)) \/ stringAt(e, 1, <<"HOUSE", "HEART", "HASTE", "HYPNO", "HEQUE">>) \/ (stringAtEnd(e, 1, <<"HALL">>) /\ ~stringAt(e, -3, <<"SOUTH", "NORTH">>)) \/ (stringAtEnd(e, 1, <<"HAM">>) /\ ~stringStart(e, <<"GOTHAM", "WITHAM", "LATHAM", "BENTHAM", "WALTHAM", "WORTHAM", "GRANTHAM">>)) \/ (stringAt(e, 1, <<"HATCH">>) /\ ~((e.idx = 0) \/ stringAt(e, -2, <<"UNTHATCH">>))) \/ stringAt(e, -3, <<"GOETHE", "WARTHOG">>) \/ stringAt(e, -2, <<"ESTHER", "NATHALIE">>))
  THEN
    The({
      Ret([e1 EXCEPT !.idx = @ + 1], TRUE)
      : e1 \in {
        IF stringAt(e, -3, <<"POSTHUM">>)
        THEN
          metaphAdd(e, "X")
        ELSE
          metaphAdd(e, "T")}})
  ELSE
    Ret(e, FALSE)

\* metaphone3.go:2552-2565  (rule)
encodeTth(e) ==
  IF stringAt(e, 0, <<"TTH">>)
  THEN
    The({
      Ret([e1 EXCEPT !.idx = @ + 2], TRUE)
      : e1 \in {
        IF stringAt(e, -2, <<"MATTH">>)
        THEN
          metaphAdd(e, "0")
        ELSE
          metaphAddStr(e, "T0", "T0")}})
  ELSE
    Ret(e, FALSE)

\* faulty variant of encodeTh: the alternate T after an initial SM is forgotten
encodeTh_plain(e) ==
  IF stringAt(e, 0, <<"TH">>)
  THEN
    IF stringAt(e, -3, <<"CLOTHES">>)
    THEN
      Ret([e EXCEPT !.idx = @ + 2], TRUE)
    ELSE
      Ret([metaphAdd(e, "0") EXCEPT !.idx = @ + 1], TRUE)
  ELSE
    Ret(e, FALSE)

\* metaphone3.go:2567-2596  (rule)
encodeTh(e) ==
  IF stringAt(e, 0, <<"TH">>)
  THEN
    IF stringAt(e, -3, <<"CLOTHES">>)
    THEN
      Ret([e EXCEPT !.idx = @ + 2], TRUE)
    ELSE
      The({
        Ret([e2 EXCEPT !.idx = @ + 1], TRUE)
        : e2 \in {
          IF (stringAt(e, 2, <<"OMAS", "OMPS", "OMPK", "OMSO", "OMSE", "AMES", "OVEN", "OFEN", "ILDA", "ILDE">>) \/ stringExact(e, <<"THOM", "THOMS">>) \/ stringStart(e, <<"SCH", "VAN ", "VON ">>))
          THEN
            metaphAdd(e, "T")
          ELSE
            IF stringStart(e, <<"SM">>)
            THEN
              metaphAddAlt(e, "0", "T")
            ELSE
              metaphAdd(e, "0")}})
  ELSE
    Ret(e, FALSE)

\* metaphone3.go:2325-2337  (rule)
encodeT(e) ==
  The({
    IF r1.ret
    THEN
      r1.e
    ELSE
      The({
        IF r2.ret
        THEN
          r2.e
        ELSE
          IF encodeSilentFrenchT(r2.e)
          THEN
            r2.e
          ELSE
            The({
              IF r3.ret
              THEN
                r3.e
              ELSE
                The({
                  IF r4.ret
                  THEN
                    r4.e
                  ELSE
                    The({
                      IF r5.ret
                      THEN
                        r5.e
                      ELSE
                        The({
                          IF r6.ret
                          THEN
                            r6.e
                          ELSE
                            The({
                              IF r7.ret
                              THEN
                                r7.e
                              ELSE
                                The({
                                  IF r8.ret
                                  THEN
                                    r8.e
                                  ELSE
                                    The({
                                      IF r9.ret
                                      THEN
                                        r9.e
                                      ELSE
                                        The({
                                          IF r10.ret
                                          THEN
                                            r10.e
                                          ELSE
                                            The({
                                              IF r11.ret
                                              THEN
                                                r11.e
                                              ELSE
                                                The({
                                                  IF r12.ret
                                                  THEN
                                                    r12.e
                                                  ELSE
                                                    The({
                                                      metaphAdd(e1, "T")
                                                      : e1 \in {
                                                        IF stringAt(r12.e, 1, <<"T", "D">>)
                                                        THEN
                                                          [r12.e EXCEPT !.idx = @ + 1]
                                                        ELSE
                                                          r12.e}})
                                                  : r12 \in {encodeTh(r11.e)}})
                                              : r11 \in {encodeTth(r10.e)}})
                                          : r10 \in {encodeThPronouncedSeparately(r9.e)}})
                                      : r9 \in {encodeTzsch(r8.e)}})
                                  : r8 \in {encodeTsch(r7.e)}})
                              : r7 \in {encodeTient(r6.e)}})
                          : r6 \in {encodeTi(r5.e)}})
                      : r5 \in {encodeTurTiuSuffixes(r4.e)}})
                  : r4 \in {encodeTueTeuTeouTulTie(r3.e)}})
              : r3 \in {encodeTunTulTuaTuo(r2.e)}})
        : r2 \in {encodeTch(r1.e)}})
    : r1 \in {encodeTInitial(e)}})

\* metaphone3.go:2598-2603  (rule)
encodeV(e) ==
  The({
    metaphAddExactApprox(e1, "V", "F")
    : e1 \in {
      IF charNextIs(e, "V")
      THEN
        [e EXCEPT !.idx = @ + 1]
      ELSE
        e}})

\* metaphone3.go:2617-2619  (test)
encodeSilentWAtBeginning(e) ==
  stringAtStart(e, 0, <<"WR">>)

\* metaphone3.go:2621-2639  (rule)
encodeWitzWicz(e) ==
  IF stringAtEnd(e, 0, <<"WICZ", "WITZ">>)
  THEN
    The({
      Ret([e1 EXCEPT !.idx = @ + 3], TRUE)
      : e1 \in {
        IF e.EncodeVowels
        THEN
          LET c1 == And3(B3(Len(e.primBuf) > 0), Idx3(e.primBuf, Len(e.primBuf) - 1, "A")) IN
          IF c1 = Panic3 THEN Ret(Panic(e), TRUE)
          ELSE IF c1 = True3
          THEN
            metaphAddStr(e, "TS", "FAX")
          ELSE
            metaphAddStr(e, "ATS", "FAX")
        ELSE
          metaphAddStr(e, "TS", "FX")}})
  ELSE
    Ret(e, FALSE)

\* metaphone3.go:2641-2649  (rule)
encodeWr(e) ==
  IF stringAt(e, 0, <<"WR">>)
  THEN
    Ret([metaphAdd(e, "R") EXCEPT !.idx = @ + 1], TRUE)
  ELSE
    Ret(e, FALSE)

\* metaphone3.go:2715-2759  (test)
germanicOrSlavicNameBeginningWithW(e) ==
  stringStart(e, <<"WEE", "WIX", "WAX", "WOLF", "WEIS", "WAHL", "WALZ", "WEIL", "WERT", "WINE", "WILK", "WALT", "WOLL", "WADA", "WULF", "WEHR", "WURM", "WYSE", "WENZ", "WIRT", "WOLK", "WEIN", "WYSS", "WASS", "WANN", "WINT", "WINK", "WILE", "WIKE", "WIER", "WELK", "WISE", "WIRTH", "WIESE", "WITTE", "WENTZ", "WOLFF", "WENDT", "WERTZ", "WILKE", "WALTZ", "WEISE", "WOOLF", "WERTH", "WEESE", "WURTH", "WINES", "WARGO", "WIMER", "WISER", "WAGER", "WILLE", "WILDS", "WAGAR", "WERTS", "WITTY", "WIENS", "WIEBE", "WIRTZ", "WYMER", "WULFF", "WIBLE", "WINER", "WIEST", "WALKO", "WALLA", "WEBRE", "WEYER", "WYBLE", "WOMAC", "WILTZ", "WURST", "WOLAK", "WELKE", "WEDEL", "WEIST", "WYGAN", "WUEST", "WEISZ", "WALCK", "WEITZ", "WYDRA", "WANDA", "WILMA", "WEBER", "WETZEL", "WEINER", "WENZEL", "WESTER", "WALLEN", "WENGER", "WALLIN", "WEILER", "WIMMER", "WEIMER", "WYRICK", "WEGNER", "WINNER", "WESSEL", "WILKIE", "WEIGEL", "WOJCIK", "WENDEL", "WITTER", "WIENER", "WEISER", "WEXLER", "WACKER", "WISNER", "WITMER", "WINKLE", "WELTER", "WIDMER", "WITTEN", "WINDLE", "WASHER", "WOLTER", "WILKEY", "WIDNER", "WARMAN", "WEYANT", "WEIBEL", "WANNER", "WILKEN", "WILTSE", "WARNKE", "WALSER", "WEIKEL", "WESNER", "WITZEL", "WROBEL", "WAGNON", "WINANS", "WENNER", "WOLKEN", "WILNER", "WYSONG", "WYCOFF", "WUNDER", "WINKEL", "WIDMAN", "WELSCH", "WEHNER", "WEIGLE", "WETTER", "WUNSCH", "WHITTY", "WAXMAN", "WILKER", "WILHAM", "WITTIG", "WITMAN", "WESTRA", "WEHRLE", "WASSER", "WILLER", "WEGMAN", "WARFEL", "WYNTER", "WERNER", "WAGNER", "WISSER", "WISEMAN", "WINKLER", "WILHELM", "WELLMAN", "WAMPLER", "WACHTER", "WALTHER", "WYCKOFF", "WEIDNER", "WOZNIAK", "WEILAND", "WILFONG", "WIEGAND", "WILCHER", "WIELAND", "WILDMAN", "WALDMAN", "WORTMAN", "WYSOCKI", "WEIDMAN", "WITTMAN", "WIDENER", "WOLFSON", "WENDELL", "WEITZEL", "WILLMAN", "WALDRUP", "WALTMAN", "WALCZAK", "WEIGAND", "WESSELS", "WIDEMAN", "WOLTERS", "WIREMAN", "WILHOIT", "WEGENER", "WOTRING", "WINGERT", "WIESNER", "WAYMIRE", "WHETZEL", "WENTZEL", "WINEGAR", "WESTMAN", "WYNKOOP", "WALLICK", "WURSTER", "WINBUSH", "WILBERT", "WALLACH", "WYNKOOP", "WALLICK", "WURSTER", "WINBUSH", "WILBERT", "WALLACH", "WEISSER", "WEISNER", "WINDERS", "WILLMON", "WILLEMS", "WIERSMA", "WACHTEL", "WARNICK", "WEIDLER", "WALTRIP", "WHETSEL", "WHELESS", "WELCHER", "WALBORN", "WILLSEY", "WEINMAN", "WAGAMAN", "WOMMACK", "WINGLER", "WINKLES", "WIEDMAN", "WHITNER", "WOLFRAM", "WARLICK", "WEEDMAN", "WHISMAN", "WINLAND", "WEESNER", "WARTHEN", "WETZLER", "WENDLER", "WALLNER", "WOLBERT", "WITTMER", "WISHART", "WILLIAM", "WESTPHAL", "WICKLUND", "WEISSMAN", "WESTLUND", "WOLFGANG", "WILLHITE", "WEISBERG", "WALRAVEN", "WOLFGRAM", "WILHOITE", "WECHSLER", "WENDLING", "WESTBERG", "WENDLAND", "WININGER", "WHISNANT", "WESTRICK", "WESTLING", "WESTBURY", "WEITZMAN", "WEHMEYER", "WEINMANN", "WISNESKI", "WHELCHEL", "WEISHAAR", "WAGGENER", "WALDROUP", "WESTHOFF", "WIEDEMAN", "WASINGER", "WINBORNE", "WHISENANT", "WEINSTEIN", "WESTERMAN", "WASSERMAN", "WITKOWSKI", "WEINTRAUB", "WINKELMAN", "WINKFIELD", "WANAMAKER", "WIECZOREK", "WIECHMANN", "WOJTOWICZ", "WALKOWIAK", "WEINSTOCK", "WILLEFORD", "WARKENTIN", "WEISINGER", "WINKLEMAN", "WILHEMINA", "WISNIEWSKI", "WUNDERLICH", "WHISENHUNT", "WEINBERGER", "WROBLEWSKI", "WAGUESPACK", "WEISGERBER", "WESTERVELT", "WESTERLUND", "WASILEWSKI", "WILDERMUTH", "WESTENDORF", "WESOLOWSKI", "WEINGARTEN", "WINEBARGER", "WESTERBERG", "WANNAMAKER", "WEISSINGER", "WALDSCHMIDT", "WEINGARTNER", "WINEBRENNER", "WOLFENBARGER", "WOJCIECHOWSKI">>)

\* metaphone3.go:2651-2669  (rule)
encodeInitialWVowel(e) ==
  IF ((e.idx = 0) /\ isVowelAt(e, 1))
  THEN
    The({
      Ret(idxSkipVowels(e1, e1.idx + 1), TRUE)
      : e1 \in {
        IF germanicOrSlavicNameBeginningWithW(e)
        THEN
          IF e.EncodeVowels
          THEN
            metaphAddExactApproxAlt(e, "A", "VA", "A", "FA")
          ELSE
            metaphAddExactApproxAlt(e, "A", "V", "A", "F")
        ELSE
          metaphAdd(e, "A")}})
  ELSE
    Ret(e, FALSE)

\* metaphone3.go:2671-2700  (rule)
encodeWh(e) ==
  IF stringAt(e, 0, <<"WH">>)
  THEN
    IF (charAt(e, 2, "O") /\ ~stringAt(e, 2, <<"OA", "OP", "OOP", "OMP", "ORL", "ORT", "OOSH">>))
    THEN
      Ret(advanceCounter(metaphAdd(e, "H"), 2, 1), TRUE)
    ELSE
      IF stringAt(e, 2, <<"IDE", "ARD", "EAD", "AWK", "ERD", "OOK", "AND", "OLE", "OOD", "EART", "OUSE", "OUND", "AMMER">>)
      THEN
        Ret([metaphAdd(e, "H") EXCEPT !.idx = @ + 1], TRUE)
      ELSE
        IF e.idx = 0
        THEN
          The({
            Ret(idxSkipVowels(e7, e7.idx + 2), TRUE)
            : e7 \in {metaphAdd(e, "A")}})
        ELSE
          Ret([e EXCEPT !.idx = @ + 1], TRUE)
  ELSE
    Ret(e, FALSE)

\* metaphone3.go:2702-2713  (rule)
encodeEasternEuropeanW(e) ==
  IF (((e.idx = e.lastIdx) /\ isVowelAt(e, -1)) \/ stringAt(e, -1, <<"EWSKI", "EWSKY", "OWSKI", "OWSKY">>) \/ stringAtEnd(e, 0, <<"WIAK", "WICKI", "WACKI">>) \/ stringStart(e, <<"SCH">>))
  THEN
    Ret(metaphAddExactApproxAlt(e, "", "V", "", "F"), TRUE)
  ELSE
    Ret(e, FALSE)

\* metaphone3.go:2605-2615  (rule)
encodeW(e) ==
  IF encodeSilentWAtBeginning(e)
  THEN
    e
  ELSE
    The({
      IF r1.ret
      THEN
        r1.e
      ELSE
        The({
          IF r2.ret
          THEN
            r2.e
          ELSE
            The({
              IF r3.ret
              THEN
                r3.e
              ELSE
                The({
                  IF r4.ret
                  THEN
                    r4.e
                  ELSE
                    The({
                      IF r5.ret
                      THEN
                        r5.e
                      ELSE
                        IF (r5.e.EncodeVowels /\ stringAtEnd(r5.e, 0, <<"WE">>))
                        THEN
                          metaphAdd(r5.e, "A")
                        ELSE
                          r5.e
                      : r5 \in {encodeEasternEuropeanW(r4.e)}})
                  : r4 \in {encodeWh(r3.e)}})
              : r3 \in {encodeInitialWVowel(r2.e)}})
          : r2 \in {encodeWr(r1.e)}})
      : r1 \in {encodeWitzWicz(e)}})

\* metaphone3.go:2774-2787  (rule)
encodeInitialX(e) ==
  IF stringStart(e, <<"XU", "XIA", "XIO", "XIE">>)
  THEN
    Ret(metaphAdd(e, "X"), TRUE)
  ELSE
    IF e.idx = 0
    THEN
      Ret(metaphAdd(e, "S"), TRUE)
    ELSE
      Ret(e, FALSE)

\* metaphone3.go:2790-2796  (rule)
encodeGreekX(e) ==
  IF stringAt(e, 1, <<"YLO", "YLE", "ENO", "ANTH">>)
  THEN
    Ret(metaphAdd(e, "S"), TRUE)
  ELSE
    Ret(e, FALSE)

\* metaphone3.go:2799-2810  (rule)
encodeXSpecialCases(e) ==
  IF stringAt(e, -2, <<"LUXUR">>)
  THEN
    Ret(metaphAddExactApprox(e, "GJ", "KJ"), TRUE)
  ELSE
    IF stringStart(e, <<"TEXEIRA", "TEIXEIRA">>)
    THEN
      Ret(metaphAdd(e, "X"), TRUE)
    ELSE
      Ret(e, FALSE)

\* metaphone3.go:2814-2820  (rule)
encodeXToH(e) ==
  IF (stringAt(e, -2, <<"OAXACA">>) \/ stringAt(e, -3, <<"QUIXOTE">>))
  THEN
    Ret(metaphAdd(e, "H"), TRUE)
  ELSE
    Ret(e, FALSE)

\* metaphone3.go:2822-2830  (rule)
encodeXVowel(e) ==
  IF stringAt(e, 1, <<"UAL", "ION", "IOU">>)
  THEN
    Ret(advanceCounter(metaphAddStr(e, "KX", "KS"), 2, 0), TRUE)
  ELSE
    Ret(e, FALSE)

\* metaphone3.go:2832-2840  (rule)
encodeFrenchXFinal(e) ==
  The({
    Ret(e1, FALSE)
    : e1 \in {
      IF ~((e.idx = e.lastIdx) /\ (stringAt(e, -3, <<"IAU", "EAU", "IEU">>) \/ stringAt(e, -2, <<"AI", "AU", "OU", "OI", "EU">>)))
      THEN
        metaphAddStr(e, "KS", "KS")
      ELSE
        e}})

\* metaphone3.go:2761-2772  (rule)
encodeX(e) ==
  The({
    IF r1.ret
    THEN
      r1.e
    ELSE
      The({
        IF r2.ret
        THEN
          r2.e
        ELSE
          The({
            IF r3.ret
            THEN
              r3.e
            ELSE
              The({
                IF r4.ret
                THEN
                  r4.e
                ELSE
                  The({
                    IF r5.ret
                    THEN
                      r5.e
                    ELSE
                      The({
                        IF r6.ret
                        THEN
                          r6.e
                        ELSE
                          IF stringAt(r6.e, 1, <<"X", "Z", "S", "CE", "CE">>)
                          THEN
                            [r6.e EXCEPT !.idx = @ + 1]
                          ELSE
                            r6.e
                        : r6 \in {encodeFrenchXFinal(r5.e)}})
                    : r5 \in {encodeXVowel(r4.e)}})
                : r4 \in {encodeXToH(r3.e)}})
            : r3 \in {encodeXSpecialCases(r2.e)}})
        : r2 \in {encodeGreekX(r1.e)}})
    : r1 \in {encodeInitialX(e)}})

\* metaphone3.go:2857-2867  (rule)
encodeZz(e) ==
  IF (charNextIs(e, "Z") /\ (stringAtEnd(e, 2, <<"I", "O", "A">>) \/ stringAt(e, -2, <<"MOZZARELL", "PIZZICATO", "PUZZONLAN">>)))
  THEN
    Ret([metaphAddStr(e, "TS", "S") EXCEPT !.idx = @ + 1], TRUE)
  ELSE
    Ret(e, FALSE)

\* metaphone3.go:2869-2882  (rule)
encodeZuZierZs(e) ==
  IF (((e.idx = 1) /\ stringAt(e, -1, <<"AZUR">>)) \/ (stringAt(e, 0, <<"ZIER">>) /\ ~stringAt(e, -2, <<"VIZIER">>)) \/ stringAt(e, 0, <<"ZSA">>))
  THEN
    The({
      The({
        Ret(e2, TRUE)
        : e2 \in {
          IF stringAt(e1, 0, <<"ZSA">>)
          THEN
            [e1 EXCEPT !.idx = @ + 1]
          ELSE
            e1}})
      : e1 \in {metaphAddAlt(e, "J", "S")}})
  ELSE
    Ret(e, FALSE)

\* metaphone3.go:2886-2893  (test)
encodeFrenchEz(e) ==
  IF (((e.idx = 3) /\ stringAt(e, -3, <<"CHEZ">>)) \/ stringAt(e, -5, <<"RENDEZ">>))
  THEN
    TRUE
  ELSE
    FALSE

\* metaphone3.go:2896-2916  (rule)
encodeGermanZ(e) ==
  IF (stringExact(e, <<"NAZI">>) \/ stringAt(e, -2, <<"NAZIFY", "MOZART">>) \/ stringAt(e, -3, <<"HOLZ", "HERZ", "MERZ", "FITZ", "HERZOG">>) \/ (stringAt(e, -3, <<"GANZ">>) /\ ~isVowelAt(e, 1)) \/ stringAt(e, -4, <<"STOLZ", "PRINZ", "VENEZIA">>) \/ (stringContains(e, "SCH") /\ ~stringEnd(e, <<"IZE", "OZE", "ZEL">>)) \/ ((e.idx > 0) /\ stringAt(e, 0, <<"ZEIT">>)) \/ stringAt(e, -3, <<"WEIZ">>))
  THEN
    The({
      Ret(e1, TRUE)
      : e1 \in {
        LET c1 == And3(B3(e.idx > 0), charAt3(e, -1, "T")) IN
        IF c1 = Panic3 THEN Ret(Panic(e), TRUE)
        ELSE IF c1 = True3
        THEN
          metaphAdd(e, "S")
        ELSE
          metaphAddStr(e, "TS", "TS")}})
  ELSE
    Ret(e, FALSE)

\* metaphone3.go:2918-2926  (rule)
encodeZh(e) ==
  IF charNextIs(e, "H")
  THEN
    Ret([metaphAdd(e, "J") EXCEPT !.idx = @ + 1], TRUE)
  ELSE
    Ret(e, FALSE)

\* metaphone3.go:2842-2853  (rule)
encodeZ(e) ==
  The({
    IF r1.ret
    THEN
      r1.e
    ELSE
      The({
        IF r2.ret
        THEN
          r2.e
        ELSE
          IF encodeFrenchEz(r2.e)
          THEN
            r2.e
          ELSE
            The({
              IF r3.ret
              THEN
                r3.e
              ELSE
                The({
                  IF r4.ret
                  THEN
                    r4.e
                  ELSE
                    The({
                      IF charNextIs(e1, "Z")
                      THEN
                        [e1 EXCEPT !.idx = @ + 1]
                      ELSE
                        e1
                      : e1 \in {metaphAdd(r4.e, "S")}})
                  : r4 \in {encodeZh(r3.e)}})
              : r3 \in {encodeGermanZ(r2.e)}})
        : r2 \in {encodeZuZierZs(r1.e)}})
    : r1 \in {encodeZz(e)}})

\* metaphone3.go:2956-2968  (rule)
encodeSkipSilentUe(e) ==
  IF ((stringAt(e, -1, <<"QUE", "GUE">>) /\ ~stringStart(e, <<"RISQUE", "PIROGUE", "ENRIQUE", "BARBEQUE", "PALENQUE", "APPLIQUE", "COMMUNIQUE">>) /\ ~stringAt(e, -3, <<"ARGUE", "SEGUE">>)) /\ (e.idx > 1) /\ ((e.idx + 1) = e.lastIdx \/ stringStart(e, <<"JACQUES">>)))
  THEN
    Ret(idxSkipVowels(e, e.idx), TRUE)
  ELSE
    Ret(e, FALSE)

\* metaphone3.go:3055-3086  (test)
encodeEPronouncedAtEnd(e) ==
  IF ((e.idx = e.lastIdx) /\ (stringAt(e, -6, <<"STROPHE">>) \/ (Len(e.in) = 2) \/ ((Len(e.in) = 3) /\ ~isVowelAt(e, -e.idx)) \/ (stringAtEnd(e, -2, <<"BKE", "DKE", "FKE", "KKE", "LKE", "NKE", "MKE", "PKE", "TKE", "VKE", "ZKE">>) /\ ~stringStart(e, <<"FINKE", "FUNKE", "FRANKE">>)) \/ stringAtEnd(e, -4, <<"SCHKE">>) \/ stringExact(e, <<"ACME", "NIKE", "CAFE", "RENE", "LUPE", "JOSE", "ESME", "LETHE", "CADRE", "TILDE", "SIGNE", "POSSE", "LATTE", "ANIME", "DOLCE", "CROCE", "ADOBE", "OUTRE", "JESSE", "JAIME", "JAFFE", "BENGE", "RUNGE", "CHILE", "DESME", "CONDE", "URIBE", "LIBRE", "ANDRE", "HECATE", "PSYCHE", "DAPHNE", "PENSKE", "CLICHE", "RECIPE", "TAMALE", "SESAME", "SIMILE", "FINALE", "KARATE", "RENATE", "SHANTE", "OBERLE", "COYOTE", "KRESGE", "STONGE", "STANGE", "SWAYZE", "FUENTE", "SALOME", "URRIBE", "ECHIDNE", "ARIADNE", "MEINEKE", "PORSCHE", "ANEMONE", "EPITOME", "SYNCOPE", "SOUFFLE", "ATTACHE", "MACHETE", "KARAOKE", "BUKKAKE", "VICENTE", "ELLERBE", "VERSACE", "PENELOPE", "CALLIOPE", "CHIPOTLE", "ANTIGONE", "KAMIKAZE", "EURIDICE", "YOSEMITE", "FERRANTE", "HYPERBOLE", "GUACAMOLE", "XANTHIPPE", "SYNECDOCHE">>)))
  THEN
    TRUE
  ELSE
    FALSE

\* metaphone3.go:3020-3043  (test)
encodeESilent(e) ==
  IF encodeEPronouncedAtEnd(e)
  THEN
    FALSE
  ELSE
    IF ((e.idx = e.lastIdx) \/ ((e.idx > 1) /\ ((e.idx + 1) = e.lastIdx) /\ stringAt(e, 1, <<"S", "D">>) /\ ~(stringAt(e, -1, <<"TED", "SES", "CES">>) \/ stringStart(e, <<"ABED", "IMED", "JARED", "AHMED", "HAMED", "JAVED", "NORRED", "MEDVED", "MERCED", "ALLRED", "KHALED", "RASHED", "MASJED", "MOHAMED", "MOHAMMED", "MUHAMMED", "MOUHAMED", "ANTIPODES", "ANOPHELES">>))) \/ stringAtEnd(e, 1, <<"NESS", "LESS">>) \/ (stringAtEnd(e, 1, <<"LY">>) /\ ~stringStart(e, <<"CICELY">>)))
    THEN
      TRUE
    ELSE
      FALSE

\* metaphone3.go:3107-3131  (test)
encodeESuffix(e, at) ==
  IF ((e.idx = (at - 1)) /\ (Len(e.in) > (at + 1)) /\ (isVowelAt(e, (-e.idx + at) + 1) \/ (stringAt(e, -e.idx + at, <<"ST", "SL">>) /\ (Len(e.in) > (at + 2)))))
  THEN
    IF stringAtEnd(e, -e.idx + at, <<"T", "R", "TA", "TT", "NA", "NO", "NE", "RS", "RE", "LA", "AU", "RO", "RA", "TTE", "LIA", "NOW", "ROS", "RAS", "WOOD", "WATER", "WORTH">>)
    THEN
      FALSE
    ELSE
      TRUE
  ELSE
    FALSE

\* metaphone3.go:3088-3105  (test)
encodeSilentInternalE(e) ==
  IF ((stringStart(e, <<"OLE">>) /\ encodeESuffix(e, 3)) \/ (stringStart(e, <<"BARE", "FIRE", "FORE", "GATE", "HAGE", "HAVE", "HAZE", "HOLE", "CAPE", "HUSE", "LACE", "LINE", "LIVE", "LOVE", "MORE", "MOSE", "MORE", "NICE", "RAKE", "ROBE", "ROSE", "SISE", "SIZE", "WARE", "WAKE", "WISE", "WINE">>) /\ encodeESuffix(e, 4)) \/ (stringStart(e, <<"BLAKE", "BRAKE", "BRINE", "CARLE", "CLEVE", "DUNNE", "HEDGE", "HOUSE", "JEFFE", "LUNCE", "STOKE", "STONE", "THORE", "WEDGE", "WHITE">>) /\ encodeESuffix(e, 5)) \/ (stringStart(e, <<"BRIDGE", "CHEESE">>) /\ encodeESuffix(e, 6)) \/ stringAt(e, -5, <<"CHARLES">>))
  THEN
    TRUE
  ELSE
    FALSE

\* metaphone3.go:3137-3166  (test)
encodeEPronouncedExceptions(e) ==
  IF ((((e.idx + 1) = e.lastIdx) /\ (stringAtEnd(e, -3, <<"OCLES", "ACLES", "AKLES">>) \/ stringStart(e, <<"INES", "LOPES", "ESTES", "GOMES", "NUNES", "ALVES", "ICKES", "INNES", "PERES", "WAGES", "NEVES", "BENES", "DONES", "CORTES", "CHAVES", "VALDES", "ROBLES", "TORRES", "FLORES", "BORGES", "NIEVES", "MONTES", "SOARES", "VALLES", "GEDDES", "ANDRES", "VIAJES", "CALLES", "FONTES", "HERMES", "ACEVES", "BATRES", "MATHES", "DELORES", "MORALES", "DOLORES", "ANGELES", "ROSALES", "MIRELES", "LINARES", "PERALES", "PAREDES", "BRIONES", "SANCHES", "CAZARES", "REVELES", "ESTEVES", "ALVARES", "MATTHES", "SOLARES", "CASARES", "CACERES", "STURGES", "RAMIRES", "FUNCHES", "BENITES", "FUENTES", "PUENTES", "TABARES", "HENTGES", "VALORES", "GONZALES", "MERCEDES", "FAGUNDES", "JOHANNES", "GONSALES", "BERMUDES", "CESPEDES", "BETANCES", "TERRONES", "DIOGENES", "CORRALES", "CABRALES", "MARTINES", "GRAJALES", "CERVANTES", "FERNANDES", "GONCALVES", "BENEVIDES", "CIFUENTES", "SIFUENTES", "SERVANTES", "HERNANDES", "BENAVIDES", "ARCHIMEDES", "CARRIZALES", "MAGALLANES">>))) \/ stringAt(e, -2, <<"FRED", "DGES", "DRED", "GNES">>) \/ stringAt(e, -5, <<"PROBLEM", "RESPLEN">>) \/ stringAt(e, -4, <<"REPLEN">>) \/ stringAt(e, -3, <<"SPLE">>))
  THEN
    TRUE
  ELSE
    FALSE

\* faulty variant of encodeEPronounced: flagAlInversion is never cleared
encodeEPronounced_keepFlag(e) ==
  IF (stringExact(e, <<"LAME", "SAKE", "PATE", "AGAPE">>) \/ (stringStart(e, <<"RESUME">>) /\ (e.idx = 5)))
  THEN
    metaphAddAlt(e, ReplacementChar, "A")
  ELSE
    IF stringExact(e, <<"INGE">>)
    THEN
      metaphAddAlt(e, "A", ReplacementChar)
    ELSE
      IF ((e.idx = 5) /\ stringStart(e, <<"BLESSED", "LEARNED">>))
      THEN
        [metaphAddExactApproxAlt(e, "D", "AD", "T", "AT") EXCEPT !.idx = @ + 1]
      ELSE
        IF ((~encodeESilent(e) /\ ~e.flagAlInversion /\ ~encodeSilentInternalE(e)) \/ encodeEPronouncedExceptions(e))
        THEN
          metaphAdd(e, "A")
        ELSE
          e

\* metaphone3.go:2973-3007  (rule)
encodeEPronounced(e) ==
  IF (stringExact(e, <<"LAME", "SAKE", "PATE", "AGAPE">>) \/ (stringStart(e, <<"RESUME">>) /\ (e.idx = 5)))
  THEN
    metaphAddAlt(e, ReplacementChar, "A")
  ELSE
    IF stringExact(e, <<"INGE">>)
    THEN
      metaphAddAlt(e, "A", ReplacementChar)
    ELSE
      IF ((e.idx = 5) /\ stringStart(e, <<"BLESSED", "LEARNED">>))
      THEN
        [metaphAddExactApproxAlt(e, "D", "AD", "T", "AT") EXCEPT !.idx = @ + 1]
      ELSE
        The({
          [e6 EXCEPT !.flagAlInversion = FALSE]
          : e6 \in {
            IF ((~encodeESilent(e) /\ ~e.flagAlInversion /\ ~encodeSilentInternalE(e)) \/ encodeEPronouncedExceptions(e))
            THEN
              metaphAdd(e, "A")
            ELSE
              e}})

\* metaphone3.go:3009-3018  (test)
encodeOSilent(e) ==
  IF (charAt(e, 0, "O") /\ stringAt(e, -2, <<"IRON">>))
  THEN
    IF ((stringStart(e, <<"IRON">>) \/ stringAtEnd(e, -2, <<"IRON">>)) /\ ~stringAt(e, -2, <<"IRONIC">>))
    THEN
      TRUE
    ELSE
      FALSE
  ELSE
    FALSE

\* metaphone3.go:2928-2954  (rule)
encodeVowels(e) ==
  IF e.idx = 0
  THEN
    The({
      IF ~(~isVowelAt(e1, -2) /\ stringAt(e1, -1, <<"LEWA", "LEWO", "LEWI">>))
      THEN
        idxSkipVowels(e1, e1.idx + 1)
      ELSE
        e1
      : e1 \in {metaphAdd(e, "A")}})
  ELSE
    IF e.EncodeVowels
    THEN
      IF ~charAt(e, 0, "E")
      THEN
        The({
          IF r1.ret
          THEN
            r1.e
          ELSE
            IF encodeOSilent(r1.e)
            THEN
              r1.e
            ELSE
              The({
                IF ~(~isVowelAt(e3, -2) /\ stringAt(e3, -1, <<"LEWA", "LEWO", "LEWI">>))
                THEN
                  idxSkipVowels(e3, e3.idx + 1)
                ELSE
                  e3
                : e3 \in {metaphAdd(r1.e, "A")}})
          : r1 \in {encodeSkipSilentUe(e)}})
      ELSE
        The({
          IF ~(~isVowelAt(e5, -2) /\ stringAt(e5, -1, <<"LEWA", "LEWO", "LEWI">>))
          THEN
            idxSkipVowels(e5, e5.idx + 1)
          ELSE
            e5
          : e5 \in {encodeEPronounced(e)}})
    ELSE
      IF ~(~isVowelAt(e, -2) /\ stringAt(e, -1, <<"LEWA", "LEWO", "LEWI">>))
      THEN
        idxSkipVowels(e, e.idx + 1)
      ELSE
        e
(***************************************************************************)
(* Encode                                                                  *)
(***************************************************************************)

\* &Encoder{EncodeVowels: .., EncodeExact: .., MaxLength: ..}: the other fields are zero
NewEncoder(o) ==
  [EncodeVowels |-> o.EncodeVowels, EncodeExact |-> o.EncodeExact, MaxLength |-> o.MaxLength,
   in |-> "", idx |-> 0, lastIdx |-> 0, primBuf |-> "", secondBuf |-> "",
   flagAlInversion |-> FALSE, panicked |-> FALSE]

\* faulty variant of encodeSetup: the default limit is one less than DefaultMaxLength
encodeSetup_short(e, in, defaultMaxLength) ==
  [e EXCEPT
     !.MaxLength = IF e.MaxLength <= 0 THEN defaultMaxLength - 1 ELSE e.MaxLength,
     !.flagAlInversion = FALSE,
     !.in = ToUpperAll(in),
     !.lastIdx = Len(ToUpperAll(in)) - 1,
     !.primBuf = "",
     !.secondBuf = "",
     !.idx = 0]

\* Encode from its first statement after the empty-input return up to the loop's init statement
encodeSetup(e, in, defaultMaxLength) ==
  [e EXCEPT
     !.MaxLength = IF e.MaxLength <= 0 THEN defaultMaxLength ELSE e.MaxLength,
     !.flagAlInversion = FALSE,
     !.in = ToUpperAll(in),
     !.lastIdx = Len(ToUpperAll(in)) - 1,
     !.primBuf = primeBuf(e.primBuf, IF e.MaxLength <= 0 THEN defaultMaxLength ELSE e.MaxLength),
     !.secondBuf = primeBuf(e.secondBuf, IF e.MaxLength <= 0 THEN defaultMaxLength ELSE e.MaxLength),
     !.idx = 0]

\* faulty variant of loopExit: the loop is left as soon as one buffer is full
loopExit_either(e) ==
  ~(e.idx < Len(e.in))
  \/ ((Len(e.primBuf) >= e.MaxLength) \/ (Len(e.secondBuf) >= e.MaxLength))

\* the loop is left when the cursor passes the last letter or when both buffers are full
loopExit(e) ==
  ~(e.idx < Len(e.in))
  \/ ((Len(e.primBuf) >= e.MaxLength) /\ (Len(e.secondBuf) >= e.MaxLength))

\* switch c := e.in[e.idx]; c { ... }
encodeSwitch(e) ==
  LET c == runeAt(e.in, e.idx) IN
  CASE c = "B" -> encodeB(e)
    [] c \in {szlig, Ccedil} -> metaphAdd(e, "S")
    [] c = "C" -> encodeC(e)
    [] c = "D" -> encodeD(e)
    [] c = "F" -> encodeF(e)
    [] c = "G" -> encodeG(e)
    [] c = "H" -> encodeH(e)
    [] c = "J" -> encodeJ(e)
    [] c = "K" -> encodeK(e)
    [] c = "L" -> encodeL(e)
    [] c = "M" -> encodeM(e)
    [] c = "N" -> encodeN(e)
    [] c = Ntilde -> metaphAdd(e, "N")
    [] c = "P" -> encodeP(e)
    [] c = "Q" -> encodeQ(e)
    [] c = "R" -> encodeR(e)
    [] c = "S" -> encodeS(e)
    [] c = "T" -> encodeT(e)
    [] c \in {ETH, THORN} -> metaphAdd(e, "0")
    [] c = "V" -> encodeV(e)
    [] c = "W" -> encodeW(e)
    [] c = "X" -> encodeX(e)
    [] c = HangulC28A -> metaphAdd(e, "X")
    [] c = HangulC28E -> metaphAdd(e, "S")
    [] c = "Z" -> encodeZ(e)
    [] OTHER -> IF isVowel(c) THEN encodeVowels(e) ELSE e

\* one iteration of the loop: the switch, then the loop's post statement e.idx++
loopIteration(e) ==
  The({IF e1.panicked THEN e1 ELSE [e1 EXCEPT !.idx = @ + 1] : e1 \in {encodeSwitch(e)}})

\* faulty variant of trimBuffers: the last MaxLength symbols are kept
trimBuffers_last(e) ==
  [e EXCEPT
     !.primBuf = IF Len(@) > e.MaxLength THEN sliceFrom(@, Len(@) - e.MaxLength) ELSE @,
     !.secondBuf = IF Len(@) > e.MaxLength THEN sliceFrom(@, Len(@) - e.MaxLength) ELSE @]

\* faulty variant of trimBuffers: nothing is cut
trimBuffers_none(e) == e

\* trim our buffers if needed
trimBuffers(e) ==
  LET e1 == IF Len(e.primBuf) > e.MaxLength
            THEN [e EXCEPT !.primBuf = sliceTo(e.primBuf, e.MaxLength)] ELSE e
  IN
  IF Len(e1.secondBuf) > e1.MaxLength
  THEN [e1 EXCEPT !.secondBuf = sliceTo(e1.secondBuf, e1.MaxLength)] ELSE e1

\* faulty variant of encodeResult: the secondary buffer is returned even when equal
encodeResult_both(e) == <<e.primBuf, e.secondBuf>>

\* the two return statements that end Encode
encodeResult(e) ==
  IF areEqual(e.primBuf, e.secondBuf)
  THEN <<e.primBuf, "">>
  ELSE <<e.primBuf, e.secondBuf>>

RECURSIVE encodeLoop(_)
\* the for loop of Encode run to its end (or to a panic)
encodeLoop(e) ==
  IF e.panicked \/ loopExit(e) THEN e ELSE encodeLoop(loopIteration(e))

\* faulty variant of Encode: the MaxLength default is applied before the empty-input return
Encode_defaultFirst(e, in, defaultMaxLength) ==
  IF in = ""
  THEN [e |-> [e EXCEPT !.MaxLength = IF @ <= 0 THEN defaultMaxLength ELSE @], keys |-> <<"", "">>]
  ELSE The({[e |-> e1, keys |-> IF e1.panicked THEN <<"panic", "panic">> ELSE encodeResult(e1)]
            : e1 \in {trimBuffers(encodeLoop(encodeSetup(e, in, defaultMaxLength)))}})

\* Encode as a function: the encoder it leaves behind and the keys it returns
Encode(e, in, defaultMaxLength) ==
  IF in = ""
  THEN [e |-> e, keys |-> <<"", "">>]
  ELSE The({[e |-> e1, keys |-> IF e1.panicked THEN <<"panic", "panic">> ELSE encodeResult(e1)]
            : e1 \in {trimBuffers(encodeLoop(encodeSetup(e, in, defaultMaxLength)))}})

\* faulty variant of packageVarsAfter: Encode stores its limit in DefaultMaxLength
packageVarsAfter_write(p, e) == [p EXCEPT !.DefaultMaxLength = e.MaxLength]

\* the package variables after Encode has run on e: Encode reads debug and
\* DefaultMaxLength and assigns neither
packageVarsAfter(p, e) == p

\* the example words of the rules' comments
ExampleWords ==
  {"ABCISSION", "ABRANCHIATE", "ABRIDGMENT", "ABRUZZI", "ACTUAL", "ADJACENT", "ADULATE", "AGILELY", "ALONENESS",
   "APHASIA", "ARDUOUS", "ASSIDUOUS", "ASSURANCE", "AUTEUIL", "BADAJOZ", "BALLERINA", "BARBITUATE", "BASHOUR",
   "BEETHOVEN", "BLASTULA", "BLECH", "BOMB", "BOMBASTIC", "BOMBER", "BRISTLE", "BROUILLARD", "BRUJO",
   "BUSTIER", "CABRILLO", "CAMPBELL", "CAPITULATE", "CARTIER", "CASUAL", "CENTRE", "CHAMELEON", "CHAO",
   "CHAOS", "CHEVALIER", "CHIMERA", "CHIT", "CHORTLE", "CHORUS", "CHYME", "CLIMBING", "CLOTHSHORSE",
   "COMB", "COMPLEMENT", "CONNEXION", "CONSCIOUS", "CONSTITUENCY", "CONTROVERSIAL", "CORPUSCLE", "CROCHETER", "CROUPIER",
   "DAZZLE", "DECLENSION", "DISHONEST", "DISHONOR", "DOCILELY", "DUMB", "EDGE", "EDUCATION", "ENTRANCE",
   "ENTRANTS", "ERTL", "ESCHEAT", "EXCEED", "EXCITE", "FAULT", "FIBRE", "FLAMBOYANT", "FORTUNATE",
   "FORTUNE", "FOUCAULT", "FUCHSIA", "GALLEGOS", "GLACIER", "GOGGLE", "GORILLA", "GRANDEUR", "GRASSHOPPER",
   "GREMILLION", "HAJJ", "HANDGRIP", "HARTSHEIM", "HARTSHORN", "HEMATURIA", "HERAKLES", "HESSIAN", "HOLMES",
   "INDIVIDUAL", "INGE", "IRON", "IRONY", "JORGE", "JOSE", "JUAN", "KACHATURIAN", "KIRCH",
   "KNIT", "KNOB", "KNOW", "KOVACH", "KOVACS", "LAMB", "LAST", "LIMB", "LINCOLN",
   "LINGUICA", "LOUIS", "MACHISMO", "MANSHOUR", "MARIJUANA", "MCGEORGE", "MCHUGH", "METIER", "MIDGUT",
   "MISCHIEF", "MISHEAR", "MODULE", "MONSIEUR", "MUDGARD", "NAUSEA", "NESTED", "NEWSHOUR", "NOXIOUS",
   "OBITUARY", "PASTEUR", "PATIENCE", "PENDULUM", "PENKNIFE", "PERSUADE", "PIECES", "POITIERS", "PRESSURE",
   "PROCEDURE", "PROSCIUTTO", "PROULX", "PSALM", "RASPBERRY", "RENAULT", "RESIDUUM", "REVEILLE", "RISES",
   "ROBLES", "ROGIER", "RUSSIAN", "SALMON", "SCH", "SCHENKER", "SCHERMERHORN", "SCHIAVONE", "SCHISTOSE",
   "SCHOOL", "SCHOONER", "SEJM", "SEXUAL", "SMITH", "SOLDIER", "SPACIER", "SPIROCHETE", "STATUE",
   "STIJL", "SURBURBAN", "TEXEIRA", "THAMES", "THOMAS", "TIJUANA", "TJAARDA", "TZAR", "UMBRAGE",
   "VEILLARD", "VERSION", "VISION", "VOGL", "WOODGROUSE", "ZAR"}

\* the first entry of each lexicon list the rules match against
LexiconWords ==
  {"ABED", "ACCOMPT", "ACEA", "ACH", "ACHA", "ACHAB", "ACHEN", "ACHISH", "ACME",
   "ACS", "ADUA", "AIM", "ALDRICH", "ALEJANDR", "ALESIA", "ALGES", "ALLA", "ALMOND",
   "ALMS", "AMBROSIAL", "ANASTASIA", "ANCHONDO", "ANCIENT", "ANDALUCIA", "ANTI", "APOPHTHEGM", "ARCH",
   "ARCHA", "ARCHEA", "ARCHER", "ARCHU", "ARGUE", "ARMON", "ARZA", "ASHOUR", "ASSOCIATION",
   "ASYMPTOT", "ATTACH", "AZUR", "BACHER", "BALKAN", "BALLET", "BALMO", "BANKNOTE", "BARE",
   "BATTLE", "BEAUCHESNE", "BERET", "BITUA", "BKE", "BLAKE", "BLESSED", "BOJA", "BRIDGE",
   "BRONCH", "BRZ", "BRZEZINSKI", "BUCHON", "BUNCOMB", "CAES", "CAMUS", "CART", "CASHMERE",
   "CASUI", "CAULK", "CHAME", "CHAMOM", "CHARCUT", "CHARLES", "CHARPENT", "CHEMI", "CHEMIN",
   "CHEMISE", "CHEVAL", "CHEZ", "CHIA", "CHIAPAS", "CHIHUAHUA", "CHISM", "CHOLLO", "CHOR",
   "CHORE", "CHORT", "CHOT", "CHRISTEN", "CHRISTENDOM", "CHRISTIAN", "CHRISTMA", "CHSIA", "CIA",
   "CIAN", "CICELY", "CIENT", "CIO", "CKI", "CLACHAN", "CLIMB", "CLOTHES", "COEL",
   "COENA", "COERCION", "COLN", "COLONEL", "COMPTROL", "CONSCIEN", "CORDIAL", "CORPS", "CORPSE",
   "COUP", "CROCE", "CROCHET", "CROUP", "CUMBER", "CZAR", "DAMNEDEST", "DEBAUCH", "DEBT",
   "DEJA", "DOCHE", "DOLCE", "DOUBT", "DRACHM", "DRACHMA", "DTH", "DUL", "DUMBASS",
   "DUQUESNE", "EAN", "EAR", "ECHO", "ECZEMA", "EILLE", "ELLI", "ELLO", "ENCARNACION",
   "ENK", "ENTREPOT", "EOUS", "EPARCH", "EQUATION", "EREZ", "ESCHAT", "ESCHEW", "ESCHI",
   "ESTER", "ESTERSHIRE", "ESTHER", "ETIOL", "EUIL", "EWSKI", "FACADE", "FASCHING", "FASCIS",
   "FAUSTIAN", "FINKE", "FIRSTLING", "FLACCID", "FLAM", "FORTUN", "FRED", "FRESNEL", "FRIJO",
   "GANZ", "GARCON", "GARZ", "GEOR", "GINGERICH", "GODDAMNIT", "GOETHE", "GONSALVES", "GOODRICH",
   "GOTHAM", "GOURMET", "GRACIE", "GUILL", "GUILLOT", "GUN", "HAI", "HALL", "HAM",
   "HANDKER", "HAP", "HATCH", "HEIM", "HERB", "HESTIA", "HINOJOSA", "HOLZ", "HOOD",
   "HOP", "HORS", "HOUR", "HOUSE", "HUA", "HUEY", "IAL", "IAN", "IAO",
   "IATE", "IAU", "ICHA", "ICI", "IDE", "IEF", "IENT", "IER", "ILELY",
   "ILLO", "IMBER", "INCHOA", "INDICT", "INDOCHINA", "INES", "ING", "INI", "INO",
   "ION", "IRONIC", "ISAACS", "ISCH", "ISH", "ISLE", "ISLEY", "ISZ", "IUT",
   "IZE", "IZVESTIA", "JACQUES", "JAMES", "JAN", "JAUREGUI", "JAVIK", "JERICHO", "JEWSK",
   "JIMERSON", "JOACH", "JOAQ", "JOHANN", "JORGEN", "KANTIAN", "KATIA", "KHACHAT", "KIRCHNER",
   "KRISTEN", "LAMBEN", "LAME", "LARCH", "LDIER", "LDRED", "LEG", "LEIJA", "LEMENT",
   "LEPRECH", "LESS", "LET", "LEWA", "LISL", "LISLE", "LISTEN", "LLA", "LOIS",
   "LOUISVILLE", "LPHAM", "LUCIO", "LUXUR", "LYCHN", "LYMPH", "MACHADO", "MACHAU", "MACHE",
   "MANCINI", "MARCIA", "MATTH", "MAURICIO", "MCCLE", "MEJIA", "MEJIAN", "MELCH", "MENARCH",
   "MESNES", "MET", "MICHEAL", "MICHEL", "MOISTEN", "MONET", "MORTGAGE", "MOZZARELL", "MRS",
   "MUCH", "NAUSEAT", "NAUSEO", "NAZI", "NAZIFY", "NENESS", "NESS", "NESTLING", "NEUM",
   "NICH", "NIHIL", "NOCK", "NOW", "NTULE", "NUMBER", "OACH", "OAXACA", "OCHE",
   "OCHER", "OCHETE", "OCIE", "OCLES", "OFTEN", "OJA", "OJEDA", "OJOBA", "OLE",
   "OLM", "OMAS", "OMBAS", "OMNISCIEN", "OODRICH", "ORGE", "ORN", "OSE", "OSIER",
   "OSTIA", "OSTRICH", "OULX", "OUR", "OUTRE", "PAISLEY", "PALACIO", "PANACEA", "PATIO",
   "PAULK", "PERNOD", "PHTH", "PHTHALEIN", "PISCITELLI", "POLK", "POLKA", "POSTHUM", "POTPOURRI",
   "PROBLEM", "PROUSTIAN", "PTERO", "QIN", "QUE", "QUIXOTE", "RACHAEL", "RAJAS", "RATATOUILLE",
   "RAULT", "RCIAL", "REAULT", "RECEIPT", "RECOUP", "RENDEZ", "REPLEN", "RESUME", "RIGHTEOUS",
   "RISQUE", "RLEST", "ROBILL", "ROOSEVELTIAN", "ROSIER", "RSIAL", "RSUA", "RTIUM", "RZANO",
   "SALM", "SAN ", "SAR", "SCHACH", "SCHALK", "SCHKE", "SCHOLT", "SCHR", "SCIVV",
   "SEAN", "SEARCH", "SHOULD", "SHOULDER", "SIA", "SIOBHAN", "SION", "SKJO", "SOBRIQUET",
   "SOCCER", "SOMERSAULT", "SONJA", "SOUTH", "SPICH", "SPINACH", "SPLE", "SSED", "STARCH",
   "STARCHY", "STATUTE", "STHM", "STLE", "STOLZ", "STRACHAN", "STROPHE", "SUGAR", "SUMMERSAULT",
   "SURBURB", "SWANSON", "SWART", "SYCH", "TABLE", "TATIANA", "TED", "TEJED", "THACH",
   "THALM", "THERESIA", "THISTLY", "THOM", "THU", "THUMB", "TIA", "TIENCE", "TION",
   "TOJO", "TORTILLA", "TOUHY", "TRICH", "TRZ", "TSCH", "TSO", "TTH", "TUA",
   "TUE", "TUENC", "TUL", "TYCH", "TZSCH", "UAL", "UAN", "UENT", "ULRICH",
   "UNG", "UNSHORN", "UNTHATCH", "UOUS", "URA", "URE", "URIA", "URICH", "USCLE",
   "USSIA", "VACHON", "VENTURA", "VISCOUNT", "VIZIER", "WALK", "WEDNESDAY", "WEE", "WEIZ",
   "WELT", "WHICHSOEVER", "WIAK", "WICKI", "WICZ", "WOULD", "YACHT", "YASTRZEMSKI", "YLO",
   "YVES", "ZACH", "ZEIT", "ZIER", "ZSA"}

(***************************************************************************)
(* Inputs.                                                                 *)
(***************************************************************************)

\* the words of the package's tests
TestWords == {"A", "ack", "eek", "ache", "supernode"}

\* mixed case, letters outside ASCII, the empty word, words with long keys
OtherWords ==
  {"", "a", "smith", "SMITH", "Schmidt", "Sanchez",
   Ntilde \o "andu", "fa" \o ccedil \o "ade", THORN \o "or", "wei" \o szlig,
   AElig \o "r" \o oslash, yuml \o "ves", Yuml, "No" \o euml \o "l", scaron \o "koda",
   HangulC29F \o "k", "a" \o HangulC28A, eth \o "a",
   "Huanghe", "HUALH", "JAKOB", "Jacob", "table", "Thompson", "knight", "psychology",
   "Tchaikovsky", "supercalifragilistic", "Archimedes", "Pontchartrain", "hallelujah",
   "Smyth", "smithe", "SMYTHE", "ACK", "Eek", "aCHe", "SuperNode", "Swanson", "Swartz",
   "Yves", Yacute \o "mir", "illo", "illillo", "illillillillillillillillo", "Ahre", "Bahre",
   "gnome", "Gnu", "gn", "pneumonia", "pn", "Pnom", "write", "wr", "Wright", "know", "kn", "knie",
   "Knish", "Knesset", "Knievel", "Knox",
   "box", "excite", "boxs", "Breaux", "Jane", "Jo", "villa", "Bally", "tallest",
   "bristle", "dazzle", "goggle", "whistle", "hustled", "bottlelike", "kettlelen", "Shuttleleved",
   "castles", "gobble", "bubbles", "Engle", "Ingle", "nobleness", "corpuscle", "muscled",
   "Filipowicz", "Horowitz", "Nowiak", "Kowalewski", "Sadowsky", "Nowicki", "Lewandowski", "Clewis",
   "queue", "Aye", "Iowa", "aeiou", "Hawaii", "ewe", "awhile", "sawhorse", "Howe", "Blessed", "iron",
   "irony", "plague", "Baeau", "Noe" \o uuml \o "l", eacute \o "ou", "Powhatan", "Yaw",
   "Jan", "Jergen", "Johnson", "Jakubowski", "Jude", "Janes",
   "Arnow", "ow", "w", "Schwa", "wiak", "Lame", "Inge", "Mr", "ll", "L",
   "-wiak", "'ewski", "Schw", " ow", "wicki", "Resume"}

\* every word of at most MaxWordLen letters over Letters
MaxWordLen == 4
Letters == {"A", "H", "W"}

RECURSIVE WordsOfLen(_)
WordsOfLen(n) ==
  IF n = 0 THEN {""} ELSE {w \o c : w \in WordsOfLen(n - 1), c \in Letters}

ShortWords == UNION {WordsOfLen(n) : n \in 0..MaxWordLen}

Words == ExampleWords \cup LexiconWords \cup TestWords \cup OtherWords \cup ShortWords

\* the values of the MaxLength option
MaxMaxLength == 2
MaxLengths == {-1, 0} \cup (1..MaxMaxLength) \cup {DefaultMaxLength}

\* one Encoder used for up to MaxCalls calls in a row
MaxCalls == 2
ReuseWords == {"", "A", "ache", "istle", "Sanchez"}

\* two Encoders used at the same time
ConcWords == {"", "ache", "Sanchez", "table"}
Options == [EncodeVowels : BOOLEAN, EncodeExact : BOOLEAN, MaxLength : MaxLengths]

ConcOptions == {o \in Options : o.MaxLength \in {0, 2}}

(***************************************************************************)
(* The program as a state machine.  A client owns some Encoders and calls  *)
(* Encode on each of them for the words queued in todo; one step of the    *)
(* machine is the entry of a call, one iteration of its loop, or its exit. *)
(***************************************************************************)
VARIABLES
  pkg,      \* the package variables debug and DefaultMaxLength
  enc,      \* enc[k]: the Encoder struct k
  pc,       \* pc[k]: "idle", "loop" (inside Encode's for loop), "done" or "panicked"
  todo,     \* todo[k]: the words the client still passes to enc[k].Encode
  arg,      \* arg[k]: the argument of the current or last call
  result,   \* result[k]: the pair of keys the last call returned
  opts,     \* opts[k]: the options enc[k] was constructed with (history)
  start,    \* start[k]: the Encoder as it was when the current or last call was entered (history)
  iters,    \* iters[k]: loop iterations of the current or last call (history)
  call      \* the call of a matcher the package's test helpers made: its name, its
            \* arguments and what it returned

vars == <<pkg, enc, pc, todo, arg, result, opts, start, iters, call>>

\* no matcher was called by a test helper
NoCall == [fn |-> "none", offset |-> 0, vals |-> <<>>, ret |-> FALSE]


\* the Encoders a client may own
EncoderIds == {1, 2}

InitWith(ids, optionSet, queues) ==
  /\ pkg = [debug |-> debug, DefaultMaxLength |-> DefaultMaxLength]
  /\ opts \in [ids -> optionSet]
  /\ enc = [k \in ids |-> NewEncoder(opts[k])]
  /\ start = enc
  /\ pc = [k \in ids |-> "idle"]
  /\ todo \in [ids -> queues]
  /\ arg = [k \in ids |-> ""]
  /\ result = [k \in ids |-> <<"", "">>]
  /\ iters = [k \in ids |-> 0]
  /\ call = NoCall

\* one Encoder, one call, any word and any options
Init == InitWith({1}, Options, {<<w>> : w \in Words})

\* one Encoder, up to MaxCalls calls one after the other
InitReuse ==
  InitWith({1}, Options, UNION {[1..n -> ReuseWords] : n \in 1..MaxCalls})

\* two Encoders, one call on each, their steps interleaved
InitConc == InitWith({1, 2}, ConcOptions, {<<w>> : w \in ConcWords})

\* if in == "" { return "", "" }
EncodeEmpty(k) ==
  /\ k \in DOMAIN enc
  /\ pc[k] \in {"idle", "done"}
  /\ todo[k] # <<>>
  /\ Head(todo[k]) = ""
  /\ arg' = [arg EXCEPT ![k] = ""]
  /\ todo' = [todo EXCEPT ![k] = Tail(@)]
  /\ start' = [start EXCEPT ![k] = enc[k]]
  /\ \E r \in {Encode(enc[k], "", pkg.DefaultMaxLength)} :
       /\ result' = [result EXCEPT ![k] = r.keys]
       /\ enc' = [enc EXCEPT ![k] = r.e]
  /\ pc' = [pc EXCEPT ![k] = "done"]
  /\ iters' = [iters EXCEPT ![k] = 0]
  /\ UNCHANGED <<pkg, opts, call>>

\* Encode is entered with a non-empty word and runs up to its loop
EncodeBegin(k) ==
  /\ k \in DOMAIN enc
  /\ pc[k] \in {"idle", "done"}
  /\ todo[k] # <<>>
  /\ Head(todo[k]) # ""
  /\ arg' = [arg EXCEPT ![k] = Head(todo[k])]
  /\ todo' = [todo EXCEPT ![k] = Tail(@)]
  /\ start' = [start EXCEPT ![k] = enc[k]]
  /\ enc' = [enc EXCEPT ![k] = encodeSetup(enc[k], Head(todo[k]), pkg.DefaultMaxLength)]
  /\ pkg' = packageVarsAfter(pkg, enc'[k])
  /\ pc' = [pc EXCEPT ![k] = "loop"]
  /\ iters' = [iters EXCEPT ![k] = 0]
  /\ UNCHANGED <<result, opts, call>>

\* one iteration of the for loop; a panic in it ends the call
LoopBody(k) ==
  /\ k \in DOMAIN enc
  /\ pc[k] = "loop"
  /\ ~loopExit(enc[k])
  /\ enc' = [enc EXCEPT ![k] = loopIteration(enc[k])]
  /\ pc' = [pc EXCEPT ![k] = IF enc'[k].panicked THEN "panicked" ELSE "loop"]
  /\ iters' = [iters EXCEPT ![k] = @ + 1]
  /\ UNCHANGED <<pkg, todo, arg, result, opts, start, call>>

\* the loop is left; the buffers are trimmed and the keys returned
EncodeReturn(k) ==
  /\ k \in DOMAIN enc
  /\ pc[k] = "loop"
  /\ loopExit(enc[k])
  /\ enc' = [enc EXCEPT ![k] = trimBuffers(enc[k])]
  /\ result' = [result EXCEPT ![k] = encodeResult(enc'[k])]
  /\ pc' = [pc EXCEPT ![k] = "done"]
  /\ UNCHANGED <<pkg, todo, arg, opts, start, iters, call>>

Next ==
  \/ \E k \in EncoderIds : EncodeEmpty(k)
  \/ \E k \in EncoderIds : EncodeBegin(k)
  \/ \E k \in EncoderIds : LoopBody(k)
  \/ \E k \in EncoderIds : EncodeReturn(k)

Spec == Init /\ [][Next]_vars

SpecReuse == InitReuse /\ [][Next]_vars

SpecConc == InitConc /\ [][Next]_vars

(***************************************************************************)
(* The matchers called the way the package's tests call them: a helper     *)
(* makes an Encoder, stores a word and a cursor in it and calls one        *)
(* matcher with an offset and a list of candidates.                        *)
(***************************************************************************)
\* the words and the candidates of the calls are written with these letters
MatchLetters == {"A", "B"}

RECURSIVE MatchStrings(_)
MatchStrings(n) ==
  IF n = 0 THEN {""} ELSE {w \o c : w \in MatchStrings(n - 1), c \in MatchLetters}

\* the words: up to MaxMatchLen letters
MaxMatchLen == 3
MatchWords == UNION {MatchStrings(n) : n \in 0..MaxMatchLen}

\* the candidates: 1 to MaxCandLen letters, MaxCands of them at most, in any order
MaxCandLen == 3
MaxCands == 2
Candidates == UNION {MatchStrings(n) : n \in 1..MaxCandLen}
CandidateLists == UNION {[1..n -> Candidates] : n \in 1..MaxCands}

\* the offsets: from MaxOffset before the cursor to MaxOffset after it
MaxOffset == 1
Offsets == (0 - MaxOffset)..MaxOffset

\* e := &Encoder{}; e.in = []rune(in); e.idx = curIdx
testEncoder(in, curIdx) ==
  [NewEncoder([EncodeVowels |-> FALSE, EncodeExact |-> FALSE, MaxLength |-> 0])
     EXCEPT !.in = in, !.idx = curIdx]

\* a helper has made the Encoder e, and the matcher fn has returned ret
matcherCalled(e, fn, offset, vals, ret) ==
  /\ start' = [start EXCEPT ![1] = e]
  /\ enc' = [enc EXCEPT ![1] = e]
  /\ call' = [fn |-> fn, offset |-> offset, vals |-> vals, ret |-> ret]
  /\ UNCHANGED <<pkg, pc, todo, arg, result, opts, iters>>

testStringAt ==
  /\ call = NoCall
  /\ \E in \in MatchWords, offset \in Offsets, vals \in CandidateLists :
       \E curIdx \in 0..Len(in) :
         \E e \in {testEncoder(in, curIdx)} :
           matcherCalled(e, "stringAt", offset, vals, stringAt(e, offset, vals))

testStringStart ==
  /\ call = NoCall
  /\ \E in \in MatchWords, vals \in CandidateLists :
       \E curIdx \in 0..Len(in) :
         \E e \in {testEncoder(in, curIdx)} :
           matcherCalled(e, "stringStart", 0, vals, stringStart(e, vals))

\* stringAtStart called the way the helpers call the other matchers
testStringAtStart ==
  /\ call = NoCall
  /\ \E in \in MatchWords, offset \in Offsets, vals \in CandidateLists :
       \E curIdx \in 0..Len(in) :
         \E e \in {testEncoder(in, curIdx)} :
           matcherCalled(e, "stringAtStart", offset, vals, stringAtStart(e, offset, vals))

testStringAtEnd ==
  /\ call = NoCall
  /\ \E in \in MatchWords, offset \in Offsets, vals \in CandidateLists :
       \E curIdx \in 0..Len(in) :
         \E e \in {testEncoder(in, curIdx)} :
           matcherCalled(e, "stringAtEnd", offset, vals, stringAtEnd(e, offset, vals))

\* the roots rootOrInflections is called with, and words made of a root, or of a root
\* without its last letter, and an ending
InflectionRoots == {"ACHE", "ARCH", "CHRISTEN"}
InflectionEndings ==
  {"", "S", "ES", "ED", "D", "ING", "INGLY", "Y", "E", "EY", "YS", "YING", "NING", "HING", "ER", "AIC"}
InflectionWords ==
  {"", "A", "ACH"}
  \cup {root \o ending : root \in InflectionRoots, ending \in InflectionEndings}
  \cup {sliceTo(root, Len(root) - 1) \o ending : root \in InflectionRoots, ending \in InflectionEndings}

\* rootOrInflections called the way the package's tests call it
testRootOrInflections ==
  /\ call = NoCall
  /\ \E inWord \in InflectionWords, root \in InflectionRoots :
       /\ call' = [fn |-> "rootOrInflections", offset |-> 0, vals |-> <<inWord, root>>,
                   ret |-> rootOrInflections(inWord, root)]
       /\ UNCHANGED <<pkg, enc, pc, todo, arg, result, opts, start, iters>>

\* one Encoder that no Encode call is made on
InitMatch == InitWith({1}, {[EncodeVowels |-> FALSE, EncodeExact |-> FALSE, MaxLength |-> 0]}, {<<>>})

NextMatch ==
  \/ testStringAt
  \/ testStringStart
  \/ testStringAtStart
  \/ testStringAtEnd
  \/ testRootOrInflections

SpecMatch == InitMatch /\ [][NextMatch]_vars
(***************************************************************************)
(* Properties.                                                             *)
(***************************************************************************)

\* the default limit the README documents for MaxLength <= 0
DocumentedDefault == 8

\* the limit a call works with, for an Encoder constructed with options o
EffectiveMaxLength(o) == IF o.MaxLength <= 0 THEN DefaultMaxLength ELSE o.MaxLength

\* the Encoder of call k as the loop left it, before the buffers are trimmed
Untrimmed(k) == encodeLoop(encodeSetup(start[k], arg[k], pkg.DefaultMaxLength))

\* what a fresh Encoder with the options of enc[k] returns for the word of call k
FreshKeys(k) == Encode(NewEncoder(opts[k]), arg[k], DefaultMaxLength).keys

\* C1: after any Encode call both returned keys have at most MaxLength symbols,
\* the default 8 standing in for a MaxLength field <= 0.
C1_KeysWithinMaxLength ==
  \A k \in DOMAIN enc :
    (pc[k] = "done") =>
      /\ Len(result[k][1]) <= EffectiveMaxLength(opts[k])
      /\ Len(result[k][2]) <= EffectiveMaxLength(opts[k])

\* a call has returned a key of exactly MaxLength symbols cut from a longer buffer
C1_Witness ==
  \E k \in DOMAIN enc :
    /\ pc[k] = "done"
    /\ arg[k] # ""
    /\ Len(Untrimmed(k).primBuf) > EffectiveMaxLength(opts[k])
    /\ Len(result[k][1]) = EffectiveMaxLength(opts[k])

\* C2: when Encode returns, the secondary key is empty whenever the two buffers are
\* equal, be it before the trim or after it, and a non-empty secondary key differs
\* from the primary key.
C2_EqualBuffersEmptySecondary ==
  [][\A k \in DOMAIN enc :
       ((pc[k] = "loop") /\ (pc'[k] = "done")) =>
         /\ (areEqual(enc[k].primBuf, enc[k].secondBuf)
             \/ areEqual(enc'[k].primBuf, enc'[k].secondBuf)) => (result'[k][2] = "")
         /\ (result'[k][2] # "") => (result'[k][2] # result'[k][1])]_vars

\* a call has returned an empty secondary key although the untrimmed buffers differed:
\* the trim made them equal
C2_Witness ==
  \E k \in DOMAIN enc :
    /\ pc[k] = "done"
    /\ result[k][1] # ""
    /\ result[k][2] = ""
    /\ Untrimmed(k).primBuf # Untrimmed(k).secondBuf

\* C3: Encode("") returns ("", "") and writes no field of the Encoder, whatever the
\* options and whatever earlier calls left in the Encoder.
C3_EmptyInputTouchesNothing ==
  [][\A k \in DOMAIN enc :
       ((pc[k] \in {"idle", "done"}) /\ (todo[k] # <<>>) /\ (todo'[k] # todo[k])
        /\ (Head(todo[k]) = "")) =>
         /\ result'[k] = <<"", "">>
         /\ enc'[k] = enc[k]]_vars

\* Encode("") has returned on an Encoder that still holds the word and a key of an
\* earlier call
C3_Witness ==
  \E k \in DOMAIN enc :
    /\ pc[k] = "done"
    /\ arg[k] = ""
    /\ result[k] = <<"", "">>
    /\ enc[k].in # ""
    /\ enc[k].primBuf # ""

\* C4: every call in a sequence of calls on one Encoder returns what a fresh Encoder
\* with the same options returns for that word.
C4_ReuseEqualsFresh ==
  \A k \in DOMAIN enc :
    (pc[k] = "done") => (result[k] = FreshKeys(k))

\* a call has returned that was entered with the buffers, the word, the cursor and the
\* flag of an earlier call still in the Encoder
C4_Witness ==
  \E k \in DOMAIN enc :
    /\ pc[k] = "done"
    /\ arg[k] # ""
    /\ start[k].primBuf # ""
    /\ start[k].in # ""
    /\ start[k].in # ToUpperAll(arg[k])
    /\ start[k].idx > 0
    /\ start[k].flagAlInversion

\* C5: every iteration of Encode's loop starts with the cursor strictly after the
\* cursor of the iteration before it: the letter rule leaves the cursor at or after
\* its entry value and the loop adds exactly 1; so a call makes at most len(input)
\* iterations.
C5_CursorStrictlyIncreases ==
  /\ [][\A k \in DOMAIN enc :
          ((pc[k] = "loop") /\ (pc'[k] = "loop") /\ (iters'[k] = iters[k] + 1)) =>
            /\ encodeSwitch(enc[k]).idx >= enc[k].idx
            /\ enc'[k].idx = encodeSwitch(enc[k]).idx + 1
            /\ enc'[k].idx > enc[k].idx]_vars
  /\ [](\A k \in DOMAIN enc : iters[k] <= Len(enc[k].in))

\* with EncodeVowels set, the first iteration has run encodeInitialHuHw on a word
\* that starts with HUA, HUE or HWA: the rule skipped the vowels and gave one letter back
C5_Witness ==
  \E k \in DOMAIN enc :
    /\ pc[k] = "loop"
    /\ iters[k] = 1
    /\ enc[k].EncodeVowels
    /\ Len(enc[k].in) >= 3
    /\ SubSeq(enc[k].in, 1, 3) \in {"HUA", "HUE", "HWA"}
    /\ enc[k].idx >= 3

\* C6: no Encode call aborts: no rule indexes the word out of range and the
\* "skipping vowels moving backward" panic of skipVowels is never reached.
C6_NoPanic ==
  \A k \in DOMAIN enc :
    /\ pc[k] # "panicked"
    /\ ~enc[k].panicked
    /\ enc[k].idx >= 0

\* an iteration is about to run encodeSilentK on the first letter of a word like
\* "knight": charAt(-1, 'N') would index before the word, the guard e.idx > 0 keeps
\* the rule from calling it, and the iteration ends without a panic
C6_Witness ==
  \E k \in DOMAIN enc :
    /\ pc[k] = "loop"
    /\ ~loopExit(enc[k])
    /\ enc[k].idx = 0
    /\ runeAt(enc[k].in, 0) = "K"
    /\ stringAt(enc[k], 1, <<"NOCK", "NUCK", "NIFE", "NACK", "NIGHT">>)
    /\ charAt3(enc[k], -1, "N") = Panic3
    /\ ~loopIteration(enc[k]).panicked

\* C7: an Encoder whose MaxLength is <= 0 returns the keys that an Encoder with
\* MaxLength = 8 and the same two flags returns.
C7_NonPositiveMaxLengthMeansEight ==
  \A k \in DOMAIN enc :
    ((pc[k] = "done") /\ (opts[k].MaxLength <= 0)) =>
      (result[k] = Encode(NewEncoder([opts[k] EXCEPT !.MaxLength = DocumentedDefault]),
                          arg[k], DefaultMaxLength).keys)

\* an Encoder with MaxLength <= 0 has returned a key of 8 symbols and left letters
\* of the word unread: the limit decided the result
C7_Witness ==
  \E k \in DOMAIN enc :
    /\ pc[k] = "done"
    /\ opts[k].MaxLength <= 0
    /\ Len(result[k][1]) = DocumentedDefault
    /\ enc[k].idx < Len(enc[k].in)

\* C8: Encode leaves the three options as they were when it was called.
C8_OptionsUnchanged ==
  \A k \in DOMAIN enc :
    (pc[k] = "done") =>
      /\ enc[k].EncodeVowels = start[k].EncodeVowels
      /\ enc[k].EncodeExact = start[k].EncodeExact
      /\ enc[k].MaxLength = start[k].MaxLength

\* C9: calls that run at the same time on distinct Encoders do not interfere: each
\* returns the keys it returns when run alone, and the package variables keep their
\* values.
C9_DistinctEncodersIndependent ==
  /\ pkg = [debug |-> debug, DefaultMaxLength |-> DefaultMaxLength]
  /\ \A k \in DOMAIN enc :
       (pc[k] = "done") =>
         (result[k] = Encode(NewEncoder(opts[k]), arg[k], DefaultMaxLength).keys)

\* the call on the first Encoder has returned after several iterations while the
\* call on the second is inside its loop
C9_Witness ==
  /\ DOMAIN enc = {1, 2}
  /\ pc[1] = "done"
  /\ iters[1] >= 2
  /\ pc[2] = "loop"
  /\ iters[2] >= 1

\* C10: with EncodeVowels = false, 'A' occurs in a returned key only as its first symbol.
C10_MarkerOnlyFirst ==
  \A k \in DOMAIN enc :
    ((pc[k] = "done") /\ ~opts[k].EncodeVowels) =>
      \A j \in 1..2 : \A i \in 2..Len(result[k][j]) : runeAt(result[k][j], i - 1) # "A"

\* the symbols of a key
Symbols(s) == {runeAt(s, i) : i \in 0..(Len(s) - 1)}

\* the symbols the folded (EncodeExact = false) encoding is said to use
FoldedSymbols == {"A", "F", "H", "J", "K", "L", "M", "N", "P", "R", "S", "T", "X", "0"}

\* C11: with EncodeExact = false every symbol of both returned keys is one of
\* A F H J K L M N P R S T X 0, so B, D, G, V and Z do not occur.
C11_FoldedAlphabet ==
  \A k \in DOMAIN enc :
    ((pc[k] = "done") /\ ~opts[k].EncodeExact) =>
      /\ Symbols(result[k][1]) \subseteq FoldedSymbols
      /\ Symbols(result[k][2]) \subseteq FoldedSymbols

\* the characters the claim about an initial vowel speaks of: A, E, I, O, U, Y and
\* their accented variants
InitialVowels ==
  {"A", "E", "I", "O", "U", "Y",
   Agrave, Aacute, Acirc, Atilde, Auml, Aring, AElig, Egrave, Eacute, Ecirc, Euml, Igrave, Iacute, Icirc, Iuml,
   Ograve, Oacute, Ocirc, Otilde, Ouml, Oslash, Ugrave, Uacute, Ucirc, Uuml, Yacute}

DefaultOptions == [EncodeVowels |-> FALSE, EncodeExact |-> FALSE, MaxLength |-> 0]

\* C13: with the default options SMITH, SMYTH, SMITHE and SMYTHE give (SM0, XMT) and
\* SCHMIDT gives (XMT, "").
C13_SmithFamily ==
  \A k \in DOMAIN enc :
    ((pc[k] = "done") /\ (opts[k] = DefaultOptions)) =>
      /\ (ToUpperAll(arg[k]) \in {"SMITH", "SMYTH", "SMITHE", "SMYTHE"}) =>
           (result[k] = <<"SM0", "XMT">>)
      /\ (ToUpperAll(arg[k]) = "SCHMIDT") => (result[k] = <<"XMT", "">>)

\* the default Encoder has returned the keys of a word of the Smith family other than
\* SMITH itself
C13_Witness ==
  \E k \in DOMAIN enc :
    /\ pc[k] = "done"
    /\ opts[k] = DefaultOptions
    /\ ToUpperAll(arg[k]) \in {"SMYTH", "SMITHE", "SMYTHE"}
    /\ result[k][2] = "XMT"

\* C14: with the default options A, ACK and EEK, in any letter case, give (A, ""),
\* (AK, "") and (AK, ""), and ACHE gives (AK, AX).
C14_BasicWords ==
  \A k \in DOMAIN enc :
    ((pc[k] = "done") /\ (opts[k] = DefaultOptions)) =>
      /\ (ToUpperAll(arg[k]) = "A") => (result[k] = <<"A", "">>)
      /\ (ToUpperAll(arg[k]) \in {"ACK", "EEK"}) => (result[k] = <<"AK", "">>)
      /\ (ToUpperAll(arg[k]) = "ACHE") => (result[k] = <<"AK", "AX">>)

\* the default Encoder has returned the keys of ACHE written in mixed case
C14_Witness ==
  \E k \in DOMAIN enc :
    /\ pc[k] = "done"
    /\ opts[k] = DefaultOptions
    /\ ToUpperAll(arg[k]) = "ACHE"
    /\ arg[k] # "ACHE"
    /\ result[k][2] = "AX"

\* C15: with EncodeVowels = true, EncodeExact = false and the default MaxLength,
\* SUPERNODE gives (SAPARNAT, ""), a key of exactly 8 symbols.
C15_Supernode ==
  \A k \in DOMAIN enc :
    ((pc[k] = "done") /\ (opts[k] = [DefaultOptions EXCEPT !.EncodeVowels = TRUE])
     /\ (ToUpperAll(arg[k]) = "SUPERNODE")) =>
      /\ result[k] = <<"SAPARNAT", "">>
      /\ Len(result[k][1]) = 8

\* the Encoder of the package's test has returned the key of supernode, and the key
\* has its 8 symbols without being cut
C15_Witness ==
  \E k \in DOMAIN enc :
    /\ pc[k] = "done"
    /\ opts[k] = [DefaultOptions EXCEPT !.EncodeVowels = TRUE]
    /\ ToUpperAll(arg[k]) = "SUPERNODE"
    /\ result[k][1] = "SAPARNAT"
    /\ Untrimmed(k).primBuf = "SAPARNAT"

\* s holds two 'A' in a row
HasDoubleA(s) == \E i \in 1..(Len(s) - 1) : SubSeq(s, i, i + 1) = "AA"

\* C16: in every state of an Encode call neither buffer holds two 'A' in a row.
C16_NoDoubleA ==
  \A k \in DOMAIN enc : ~HasDoubleA(enc[k].primBuf) /\ ~HasDoubleA(enc[k].secondBuf)

\* the longest string a rule appends in one call of metaphAddStr ("MASTAR")
LongestAppend == 6

\* C17: during an Encode call neither buffer holds more than MaxLength symbols plus
\* what one rule appends, however long the word is.
C17_BoundedOvershoot ==
  \A k \in DOMAIN enc :
    (pc[k] = "loop") =>
      /\ Len(enc[k].primBuf) <= enc[k].MaxLength + LongestAppend
      /\ Len(enc[k].secondBuf) <= enc[k].MaxLength + LongestAppend

\* both buffers of e hold MaxLength symbols or more
BothFull(e) == (Len(e.primBuf) >= e.MaxLength) /\ (Len(e.secondBuf) >= e.MaxLength)

\* C18: a letter rule is dispatched only in a state where input remains and not both
\* buffers hold MaxLength symbols, and the scan stops only when no input remains or
\* both buffers hold MaxLength symbols.
C18_StopsExactlyWhenBothFull ==
  [][\A k \in DOMAIN enc :
       /\ ((pc[k] = "loop") /\ (iters'[k] = iters[k] + 1)) =>
            ((enc[k].idx < Len(enc[k].in)) /\ ~BothFull(enc[k]))
       /\ ((pc[k] = "loop") /\ (pc'[k] = "done")) =>
            (~(enc[k].idx < Len(enc[k].in)) \/ BothFull(enc[k]))]_vars

\* the scan goes on with a full primary buffer because the secondary is not full yet,
\* and another rule has just been dispatched
C18_Witness ==
  \E k \in DOMAIN enc :
    /\ pc[k] = "loop"
    /\ iters[k] >= 2
    /\ Len(enc[k].primBuf) > enc[k].MaxLength
    /\ Len(enc[k].secondBuf) < enc[k].MaxLength
    /\ enc[k].idx < Len(enc[k].in)


\* the candidate v occurs in the word in at position pos
Occurs(in, pos, v) ==
  (pos >= 0) /\ (pos + Len(v) <= Len(in)) /\ (SubSeq(in, pos + 1, pos + Len(v)) = v)

\* one of the candidates of the call occurs in the word at position pos
SomeOccursAt(pos) == \E j \in 1..Len(call.vals) : Occurs(enc[1].in, pos, call.vals[j])

\* C19: stringAt returns true exactly when one of the candidates, in whatever order
\* they are given, occurs in the word at cursor + offset, and false when that
\* position is outside the word; stringStart and stringAtStart are the same test at
\* position 0; none of them changes the Encoder.
C19_StringAtAnyOrder ==
  /\ (call.fn = "stringAt") =>
       (call.ret <=> SomeOccursAt(enc[1].idx + call.offset))
  /\ (call.fn = "stringStart") =>
       (call.ret <=> SomeOccursAt(0))
  /\ (call.fn = "stringAtStart") =>
       (call.ret <=> ((enc[1].idx + call.offset = 0) /\ SomeOccursAt(0)))
  /\ (call.fn \in {"stringAt", "stringStart", "stringAtStart"}) => (enc[1] = start[1])

\* one of the candidates of the call occurs in the word at position pos and ends on
\* the last character of the word
SomeEndsAt(pos) ==
  \E j \in 1..Len(call.vals) :
    Occurs(enc[1].in, pos, call.vals[j]) /\ (pos + Len(call.vals[j]) = Len(enc[1].in))

Stem(root) ==
  IF runeAt(root, Len(root) - 1) = "E" THEN sliceTo(root, Len(root) - 1) ELSE root

\* the root and its regular English inflections
Inflections(root) ==
  {root, root \o "S", Stem(root) \o "ES", Stem(root) \o "ED",
   Stem(root) \o "ING", Stem(root) \o "INGLY", Stem(root) \o "Y"}

\* C21: rootOrInflections(word, root) is true exactly when word is the root, root+S,
\* root+ES, root+ED (root+D when the root ends in E), or root+ING, root+INGLY, root+Y
\* with a final E of the root dropped first.
C21_RootOrInflections ==
  (call.fn = "rootOrInflections") =>
    (call.ret <=> (call.vals[1] \in Inflections(call.vals[2])))

\* w starts with the letters of p
HasPrefix(w, p) == (Len(w) >= Len(p)) /\ (SubSeq(w, 1, Len(p)) = p)

\* the words whose first letter is silent: they begin with GN, PN or WR, or with KN
\* and not with KNISH, KNESSET or KNIEVEL
SilentInitial(w) ==
  \/ HasPrefix(w, "GN")
  \/ HasPrefix(w, "PN")
  \/ HasPrefix(w, "WR")
  \/ (HasPrefix(w, "KN")
      /\ ~HasPrefix(w, "KNISH") /\ ~HasPrefix(w, "KNESSET") /\ ~HasPrefix(w, "KNIEVEL"))

\* C22: for a word that begins with GN, PN or WR, or with KN other than KNISH,
\* KNESSET and KNIEVEL, the dispatch of the first letter adds no symbol to either
\* buffer, and the keys start with the symbol of the second letter.
C22_SilentInitialLetter ==
  \A k \in DOMAIN enc :
    SilentInitial(ToUpperAll(arg[k])) =>
      /\ ((pc[k] = "loop") /\ (iters[k] = 1)) =>
           ((enc[k].primBuf = "") /\ (enc[k].secondBuf = ""))
      /\ (pc[k] = "done") =>
           /\ runeAt(result[k][1], 0) = runeAt(ToUpperAll(arg[k]), 1)
           /\ (result[k][2] # "") => (runeAt(result[k][2], 0) = runeAt(ToUpperAll(arg[k]), 1))

\* the buffers and the cursor of e1 are those of e
SameOutput(e, e1) ==
  (e1.primBuf = e.primBuf) /\ (e1.secondBuf = e.secondBuf) /\ (e1.idx = e.idx)

\* the steps of encodeX before encodeFrenchXFinal have all returned false on e
XStepsDeclined(e) ==
  /\ ~encodeInitialX(e).ret
  /\ ~encodeGreekX(e).ret
  /\ ~encodeXSpecialCases(e).ret
  /\ ~encodeXToH(e).ret
  /\ ~encodeXVowel(e).ret

\* the steps of encodeJ before encodeJToJ have all returned false on e
JStepsDeclined(e) ==
  /\ e.idx = 0
  /\ ~encodeSpanishJ(e).ret
  /\ ~encodeSpanishOjUj(e).ret
  /\ ~encodeGermanJ(e).ret

\* the steps of encodeL before encodeLlAsVowelCases have all returned false on e
LStepsDeclined(e) ==
  /\ ~encodeLelyToL(e).ret
  /\ ~encodeColonel(e).ret
  /\ ~encodeFrenchAult(e).ret
  /\ ~encodeFrenchEuil(e)
  /\ ~encodeFrenchOulx(e).ret
  /\ ~encodeSilentLInLm(e).ret
  /\ ~encodeSilentLInLkLv(e)
  /\ ~encodeSilentLInOuld(e).ret

\* the step with result r, entered in e, has left e as it was if it returned false,
\* and if it has changed e the letter's rule ends in the state the step left
OneAction(e, r, after) ==
  /\ (~r.ret) => SameOutput(e, r.e)
  /\ (~SameOutput(e, r.e)) => SameOutput(r.e, after)

\* C23: in the cascade of a letter, a step that returns false has changed neither
\* buffer nor the cursor, and after a step that has changed one of them no later
\* step and no default action of the letter runs.
C23_OneActionPerCascade ==
  \A k \in DOMAIN enc :
    ((pc[k] = "loop") /\ ~loopExit(enc[k])) =>
      /\ ((runeAt(enc[k].in, enc[k].idx) = "X") /\ XStepsDeclined(enc[k])) =>
           OneAction(enc[k], encodeFrenchXFinal(enc[k]), encodeX(enc[k]))
      /\ ((runeAt(enc[k].in, enc[k].idx) = "J") /\ JStepsDeclined(enc[k])) =>
           OneAction(enc[k], encodeJToJ(enc[k]), encodeJ(enc[k]))
      /\ ((runeAt(enc[k].in, enc[k].idx) = "L")
          /\ LStepsDeclined(interpolateVowelWhenConsLAtEnd(enc[k]))) =>
           OneAction(interpolateVowelWhenConsLAtEnd(enc[k]),
                     encodeLlAsVowelCases(interpolateVowelWhenConsLAtEnd(enc[k])),
                     encodeL(enc[k]))

\* e with flagAlInversion cleared
Unflagged(e) == [e EXCEPT !.flagAlInversion = FALSE]

\* C24: flagAlInversion is false when a call starts scanning; a dispatch sets it
\* only under EncodeVowels, for an L or an S, together with the transposed AL or SAL;
\* while it is set the dispatch of any letter but E does what it does without the
\* flag and leaves it set, and the dispatch of the first E clears it and differs from
\* the dispatch without the flag by at most the one 'A' it suppresses.
C24_AlInversionSuppressesOnce ==
  [][\A k \in DOMAIN enc :
       /\ ((pc[k] # "loop") /\ (pc'[k] = "loop")) => ~enc'[k].flagAlInversion
       /\ ((pc[k] = "loop") /\ (iters'[k] = iters[k] + 1) /\ (pc'[k] = "loop")) =>
            /\ (~enc[k].flagAlInversion /\ enc'[k].flagAlInversion) =>
                 /\ enc[k].EncodeVowels
                 /\ \/ (runeAt(enc[k].in, enc[k].idx) = "L")
                       /\ (enc'[k].primBuf = enc[k].primBuf \o "AL")
                    \/ (runeAt(enc[k].in, enc[k].idx) = "S")
                       /\ (enc'[k].primBuf = enc[k].primBuf \o "SAL")
            /\ (enc[k].flagAlInversion /\ (runeAt(enc[k].in, enc[k].idx) # "E")) =>
                 /\ enc'[k].flagAlInversion
                 /\ Unflagged(enc'[k]) = Unflagged(loopIteration(Unflagged(enc[k])))
            /\ (enc[k].flagAlInversion /\ (runeAt(enc[k].in, enc[k].idx) = "E")) =>
                 /\ ~enc'[k].flagAlInversion
                 /\ enc'[k].idx = loopIteration(Unflagged(enc[k])).idx
                 /\ loopIteration(Unflagged(enc[k])).primBuf \in {enc'[k].primBuf, enc'[k].primBuf \o "A"}
                 /\ loopIteration(Unflagged(enc[k])).secondBuf
                      \in {enc'[k].secondBuf, enc'[k].secondBuf \o "A"}]_vars

\* the flag is set and the E at the cursor is about to lose the 'A' it would add
\* without the flag
C24_Witness ==
  \E k \in DOMAIN enc :
    /\ pc[k] = "loop"
    /\ ~loopExit(enc[k])
    /\ enc[k].flagAlInversion
    /\ runeAt(enc[k].in, enc[k].idx) = "E"
    /\ loopIteration(Unflagged(enc[k])).primBuf = loopIteration(enc[k]).primBuf \o "A"

\* the symbols a step has appended to a buffer that held old and now holds new
Appended(old, new) == SubSeq(new, Len(old) + 1, Len(new))

\* the number of 'A' in s
CountA(s) == Cardinality({i \in 1..Len(s) : SubSeq(s, i, i) = "A"})

\* the W at position pos of e.in is one of those a run of vowels stops on
StopsOnW(e, pos) ==
  \/ stringAt(e, pos - e.idx, <<"WICZ", "WITZ", "WIAK">>)
  \/ stringAt(e, pos - 1 - e.idx, <<"EWSKI", "EWSKY", "OWSKI", "OWSKY">>)
  \/ stringAtEnd(e, pos - e.idx, <<"WICKI", "WACKI">>)
  \/ stringAt(e, pos - 2 - e.idx, <<"LEWA", "LEWO", "LEWI">>)

\* C25: after the dispatch of a vowel the cursor is not on a vowel, and it is on a W
\* only when that W is one of the listed exceptions; the dispatch has added at most
\* one 'A' to each buffer.
C25_VowelRunSkipped ==
  [][\A k \in DOMAIN enc :
       ((pc[k] = "loop") /\ (iters'[k] = iters[k] + 1) /\ (pc'[k] = "loop")
        /\ isVowel(runeAt(enc[k].in, enc[k].idx))) =>
         /\ enc'[k].idx > enc[k].idx
         /\ (enc'[k].idx < Len(enc[k].in)) =>
              /\ ~isVowel(runeAt(enc[k].in, enc'[k].idx))
              /\ (runeAt(enc[k].in, enc'[k].idx) = "W") => StopsOnW(enc[k], enc'[k].idx)
         /\ CountA(Appended(enc[k].primBuf, enc'[k].primBuf)) <= 1
         /\ CountA(Appended(enc[k].secondBuf, enc'[k].secondBuf)) <= 1]_vars

\* with EncodeVowels a run of three vowels inside the word has been left behind by
\* one dispatch, which added one 'A'
C25_Witness ==
  \E k \in DOMAIN enc :
    /\ pc[k] = "loop"
    /\ enc[k].EncodeVowels
    /\ enc[k].idx >= 4
    /\ enc[k].idx < Len(enc[k].in)
    /\ \A i \in 1..3 : isVowel(runeAt(enc[k].in, enc[k].idx - i))
    /\ ~isVowel(runeAt(enc[k].in, enc[k].idx - 4))
    /\ Len(enc[k].primBuf) >= 2
    /\ runeAt(enc[k].primBuf, Len(enc[k].primBuf) - 1) = "A"
    /\ runeAt(enc[k].primBuf, Len(enc[k].primBuf) - 2) # "A"

\* s is the first n symbols of t, or all of t when t has fewer
FirstOf(s, n, t) == s = (IF Len(t) <= n THEN t ELSE SubSeq(t, 1, n))

\* s is a prefix of t
IsPrefix(s, t) == (Len(s) <= Len(t)) /\ (SubSeq(t, 1, Len(s)) = s)

\* the options o with another MaxLength
WithMaxLength(o, m) == [o EXCEPT !.MaxLength = m]

\* C26: for a word and fixed EncodeVowels and EncodeExact, the primary key under a
\* limit is the first symbols, as many as the limit, of the primary key under any
\* larger limit, and a non-empty secondary key is a prefix of the secondary key
\* under the larger limit (MaxLength <= 0 standing for the default limit).
C26_KeysArePrefixes ==
  \A k \in DOMAIN enc :
    (pc[k] = "done") =>
      \A m \in MaxLengths :
        (EffectiveMaxLength(WithMaxLength(opts[k], m)) > EffectiveMaxLength(opts[k])) =>
          \A larger \in {Encode(NewEncoder(WithMaxLength(opts[k], m)), arg[k], DefaultMaxLength).keys} :
            /\ FirstOf(result[k][1], EffectiveMaxLength(opts[k]), larger[1])
            /\ (result[k][2] # "") => IsPrefix(result[k][2], larger[2])

\* a call has returned two keys that fill its limit, and the same word has longer keys
\* under the default limit
C26_Witness ==
  \E k \in DOMAIN enc :
    /\ pc[k] = "done"
    /\ opts[k].MaxLength = 2
    /\ Len(result[k][1]) = 2
    /\ Len(result[k][2]) = 2
    /\ Len(Encode(NewEncoder(WithMaxLength(opts[k], 0)), arg[k], DefaultMaxLength).keys[2]) > 2

\* the symbol c with the voiced consonants folded: B to P, D to T, G to K, V to F
FoldSymbol(c) ==
  CASE c = "B" -> "P"
    [] c = "D" -> "T"
    [] c = "G" -> "K"
    [] c = "V" -> "F"
    [] OTHER -> c

RECURSIVE Fold(_)
\* the key s with every symbol folded
Fold(s) == IF s = "" THEN "" ELSE FoldSymbol(SubSeq(s, 1, 1)) \o Fold(SubSeq(s, 2, Len(s)))

\* C27: for a word and fixed EncodeVowels and MaxLength, the keys with EncodeExact =
\* false are the keys with EncodeExact = true with B, D, G, V replaced by P, T, K, F.
C27_ApproxIsFoldedExact ==
  \A k \in DOMAIN enc :
    ((pc[k] = "done") /\ ~opts[k].EncodeExact) =>
      \A exact \in {Encode(NewEncoder([opts[k] EXCEPT !.EncodeExact = TRUE]), arg[k], DefaultMaxLength).keys} :
        /\ result[k][1] = Fold(exact[1])
        /\ result[k][2] = Fold(exact[2])

\* the Encoder in which encodeL calls encodeLeCases, for the L at the cursor of e
AtLeCases(e) == encodeLlAsVowelCases(interpolateVowelWhenConsLAtEnd(e)).e

\* encodeL, entered in e, reaches encodeLeCases
ReachesLeCases(e) ==
  /\ runeAt(e.in, e.idx) = "L"
  /\ LStepsDeclined(interpolateVowelWhenConsLAtEnd(e))
  /\ ~encodeLlAsVowelCases(interpolateVowelWhenConsLAtEnd(e)).ret

\* C28: in encodeLeCases both rules test the characters around the saved position
\* of the L: with the offset each of them computes, cursor + offset is the saved
\* position, also when the cursor has been moved past a doubled L.
C28_LeRulesTestAroundSavedIdx ==
  \A k \in DOMAIN enc :
    ((pc[k] = "loop") /\ ~loopExit(enc[k]) /\ ReachesLeCases(enc[k])) =>
      /\ AtLeCases(enc[k]).idx + leTranspositionOffset(AtLeCases(enc[k]), enc[k].idx) = enc[k].idx
      /\ AtLeCases(enc[k]).idx + preserveVowelOffset(AtLeCases(enc[k]), enc[k].idx) = enc[k].idx

\* C29: every name listed in namesBeginningWithJThatGetAltY is recognised when the
\* word is exactly that name, and with the default options JAKOB gives (JKP, AKP).
C29_ListedJNamesRecognised ==
  \A k \in DOMAIN enc :
    /\ ((pc[k] = "loop") /\ (enc[k].idx = 0)
        /\ (\E j \in 1..Len(jNamesThatGetAltY) : enc[k].in = jNamesThatGetAltY[j])) =>
         namesBeginningWithJThatGetAltY(enc[k])
    /\ ((pc[k] = "done") /\ (opts[k] = DefaultOptions) /\ (ToUpperAll(arg[k]) = "JAKOB")) =>
         (result[k] = <<"JKP", "AKP">>)

\* C30: when a call returns, a non-empty secondary key comes with a non-empty
\* primary key: the rules that add a symbol to the secondary buffer only (F or V
\* for a W, A for a final E) never leave the primary key empty.
C30_SecondaryNeedsPrimary ==
  \A k \in DOMAIN enc :
    (pc[k] = "done") => ((result[k][2] # "") => (result[k][1] # ""))

\* a final W has added F to the secondary key only, after symbols that both keys hold
C30_Witness ==
  \E k \in DOMAIN enc :
    /\ pc[k] = "done"
    /\ ~opts[k].EncodeExact
    /\ Len(enc[k].in) >= 2
    /\ runeAt(enc[k].in, Len(enc[k].in) - 1) = "W"
    /\ result[k][1] # ""
    /\ result[k][2] = result[k][1] \o "F"
====
